---- MODULE Spec2Model ----
(***************************************************************************)
(* A model of the streaming XLSX writer of kolayxlsxstream: the Writer     *)
(* (StartFile / WriteRow / WriteRows / FinishFile and the configuration    *)
(* setters), the archive it drives and the container templates it writes.  *)
(*                                                                         *)
(* Every exported method is one action.  A method is a deterministic       *)
(* function of the Writer's state, its arguments and `f`, the ordinal of   *)
(* the first archive/sink call of that invocation that the destination     *)
(* rejects (0: none is rejected).  archive/zip puts a bufio.Writer between *)
(* itself and the sink, whose first error is permanent: once a call has    *)
(* failed (zipErr) every later archive call fails as well.                 *)
(*                                                                         *)
(* Spec is one Writer over an abstract sink, SharedSpec two Writers made   *)
(* from one *Config, SinkSpec the S3Sink driven through its own methods,   *)
(* ReaderSpec one call of S3SinkFromReader, ExportSpec a failure-free     *)
(* export of a Writer into an S3Sink, FunctionSpec the package-level       *)
(* functions of sink.go on arguments of their own.                         *)
(***************************************************************************)
EXTENDS Integers, Sequences, FiniteSets, TLC

VARIABLES
    started,            \* Writer.started
    finished,           \* Writer.finished
    config,             \* *Writer.config
    sheetWriters,       \* Writer.sheetWriters
    currentSheetIndex,  \* Writer.currentSheetIndex (0-based, as in the source)
    totalRows,          \* Writer.totalRows
    entries,            \* the archive: entries created so far, with the data accepted
    zipErr,             \* the archive's buffered writer holds a (permanent) error
    zipClosed,          \* zip.Writer.Close has succeeded
    sinkClosed,         \* Sink.Close has been invoked
    ioTrace,            \* archive/sink calls issued by the last method call, in order
    last,               \* the last method call: its name, argument, error and Stats
    rowsAccepted,       \* number of rows the caller passed to WriteRow(s) that returned nil
    atStart,            \* the configuration as it was when StartFile was called
    peerStarted,        \* started, of a second Writer made from the same *Config
    s3sink,             \* an S3Sink: its fields, and the calls it made on the S3 client
    fcall               \* a call of a package-level function: its name, arguments, result

writerVars == <<started, finished, config, sheetWriters, currentSheetIndex, totalRows,
                entries, zipErr, zipClosed, sinkClosed, ioTrace, last, rowsAccepted,
                atStart>>

vars == <<writerVars, peerStarted, s3sink, fcall>>

Nil == "nil"

----------------------------------------------------------------------------
(* Bounds of the model *)

MaxRows == 4        \* rows (header included) a document receives
MaxBatch == 2       \* rows in one WriteRows call
MaxCeiling == 2     \* small row ceilings tried besides the format's limit
MaxWrites == 3      \* Write calls on an S3Sink
MaxCloses == 1      \* Close and Abort calls on an S3Sink

----------------------------------------------------------------------------
(* Program constants *)

ExcelMaxRows == 1048576
MinBufferSize == 1024
MinLevel == 0
MaxLevel == 9
MiB == 1024 * 1024
MinPartSize == 5 * 1024 * 1024
DefaultPartSize == 32 * 1024 * 1024

DefaultConfig ==
    [CompressionLevel |-> 6,
     BufferSize       |-> 64 * 1024,
     MaxRowsPerSheet  |-> 1048576,
     SheetNamePrefix  |-> "Sheet"]

\* compress/flate accepts levels -2..9; any other level makes every Create fail
ValidFlateLevel(level) == level >= -2 /\ level <= 9

----------------------------------------------------------------------------
(* Values, rows and the row encoder *)

\* A Go string is a sequence of characters.
StrV(chars) == [type |-> "string", val |-> chars]
IntV(n)     == [type |-> "int", val |-> <<ToString(n)>>]
FloatV(txt) == [type |-> "float64", val |-> txt]
BoolV(b)    == [type |-> "bool", val |-> IF b THEN <<"true">> ELSE <<"false">>]
NilV        == [type |-> "nil", val |-> <<>>]
OtherV(txt) == [type |-> "other", val |-> txt]

Letters == <<"A", "B", "C", "D", "E", "F", "G", "H", "I", "J", "K", "L", "M",
             "N", "O", "P", "Q", "R", "S", "T", "U", "V", "W", "X", "Y", "Z">>

escapeChar(c) ==
    CASE c = "&"  -> "&amp;"
      [] c = "<"  -> "&lt;"
      [] c = ">"  -> "&gt;"
      [] c = "'"  -> "&#39;"
      [] c = "\"" -> "&#34;"
      [] OTHER    -> c

escapeXML(str) == [i \in 1..Len(str) |-> escapeChar(str[i])]

RECURSIVE colLoop(_, _)
colLoop(col, name) ==
    IF col > 0
    THEN colLoop((col - 1) \div 26, <<Letters[((col - 1) % 26) + 1]>> \o name)
    ELSE name

\* columnName without `col++`: the index taken as one-based
columnName_OneBased(col) == colLoop(col, <<>>)

columnName(col) == colLoop(col + 1, <<>>)

cellReference(row, col) == [col |-> columnName(col), row |-> row + 1]

\* encodeCell without its bool case: a bool falls through to the default
encodeCell_BoolAsText(ref, value) ==
    CASE value.type \in {"int", "float64"} ->
            [r |-> ref, t |-> "", v |-> value.val]
      [] value.type = "nil" ->
            [r |-> ref, t |-> "empty", v |-> <<>>]
      [] OTHER ->
            [r |-> ref, t |-> "inlineStr", v |-> escapeXML(value.val)]

encodeCell(ref, value) ==
    CASE value.type = "string" ->
            [r |-> ref, t |-> "inlineStr", v |-> escapeXML(value.val)]
      [] value.type = "int" ->
            [r |-> ref, t |-> "", v |-> value.val]
      [] value.type = "float64" ->
            [r |-> ref, t |-> "", v |-> value.val]
      [] value.type = "bool" ->
            [r |-> ref, t |-> "b", v |-> IF value.val = <<"true">> THEN <<"1">> ELSE <<"0">>]
      [] value.type = "nil" ->
            [r |-> ref, t |-> "empty", v |-> <<>>]
      [] OTHER ->
            [r |-> ref, t |-> "inlineStr", v |-> escapeXML(value.val)]

generateRow(rowIndex, values) ==
    [kind  |-> "row",
     n     |-> rowIndex + 1,
     items |-> [i \in 1..Len(values) |-> encodeCell(cellReference(rowIndex, i - 1), values[i])]]

----------------------------------------------------------------------------
(* Container templates *)

File(path)     == [path |-> path, n |-> 0]
SheetFile(num) == [path |-> "xl/worksheets/sheet%d.xml", n |-> num]

relsXML         == [kind |-> "relsXML", n |-> 0, items |-> <<>>]
stylesXML       == [kind |-> "stylesXML", n |-> 0, items |-> <<>>]
worksheetHeader == [kind |-> "worksheetHeader", n |-> 0, items |-> <<>>]
worksheetFooter == [kind |-> "worksheetFooter", n |-> 0, items |-> <<>>]

generateContentTypesXML(sheetCount) ==
    [kind  |-> "contentTypesXML",
     n     |-> sheetCount,
     items |-> [i \in 1..sheetCount |-> [PartName |-> <<"/xl/worksheets/sheet%d.xml", i>>]]]

generateWorkbookXML(sheetCount, sheetPrefix) ==
    [kind  |-> "workbookXML",
     n     |-> sheetCount,
     items |-> [i \in 1..sheetCount |->
                  [name |-> <<sheetPrefix, i>>, sheetId |-> i, rId |-> i]]]

generateWorkbookRelsXML(sheetCount) ==
    [kind  |-> "workbookRelsXML",
     n     |-> sheetCount,
     items |-> [i \in 1..sheetCount |->
                  [Id |-> i, Target |-> <<"worksheets/sheet%d.xml", i>>]]
               \o <<[Id |-> 999, Target |-> <<"styles.xml", 0>>]>>]

----------------------------------------------------------------------------
(* The Writer's state as one value, and the archive it writes to *)

\* FinishFile returned no Stats (a nil *Stats)
NoStats == [TotalRows |-> -1, TotalSheets |-> -1, FileSize |-> -1]

St ==
    [started           |-> started,
     finished          |-> finished,
     config            |-> config,
     sheetWriters      |-> sheetWriters,
     currentSheetIndex |-> currentSheetIndex,
     totalRows         |-> totalRows,
     entries           |-> entries,
     zipErr            |-> zipErr,
     zipClosed         |-> zipClosed,
     sinkClosed        |-> sinkClosed,
     trace             |-> <<>>,
     err               |-> Nil,
     stats             |-> NoStats]

\* return fmt.Errorf(msg, ...)
Fail(s, msg) == [s EXCEPT !.err = msg]

\* The destination rejects the next archive call: it is the f-th call of this
\* invocation, or an earlier call has already failed.
Rejects(s, f) == s.zipErr \/ Len(s.trace) + 1 = f

IOEvent(call, target, data, ok) == [call |-> call, target |-> target, data |-> data, ok |-> ok]

\* w.zipWriter.Create(name)
zipCreate(s, name, f) ==
    LET levelErr == ~ValidFlateLevel(s.config.CompressionLevel)
        sinkErr  == ~levelErr /\ Rejects(s, f)
        ok       == ~levelErr /\ ~sinkErr
    IN  [s EXCEPT !.trace   = Append(@, IOEvent("Create", name, Nil, ok)),
                  !.zipErr  = @ \/ sinkErr,
                  !.entries = IF ok THEN Append(@, [name |-> name, body |-> <<>>]) ELSE @,
                  !.err     = IF ok THEN Nil ELSE "io error"]

\* writer.Write(data) on the io.Writer that Create returned as entry number w.
\* Only the entry created last accepts data.
entryWrite(s, w, data, f) ==
    LET ok == ~Rejects(s, f) /\ w = Len(s.entries) /\ ~s.zipClosed
    IN  [s EXCEPT !.trace   = Append(@, IOEvent("Write", s.entries[w].name, data.kind, ok)),
                  !.zipErr  = @ \/ Rejects(s, f),
                  !.entries = IF ok THEN [@ EXCEPT ![w].body = Append(@, data)] ELSE @,
                  !.err     = IF ok THEN Nil ELSE "io error"]

\* w.zipWriter.Close()
zipClose(s, f) ==
    LET ok == ~Rejects(s, f) /\ ~s.zipClosed
    IN  [s EXCEPT !.trace     = Append(@, IOEvent("ZipClose", File("archive"), Nil, ok)),
                  !.zipErr    = @ \/ Rejects(s, f),
                  !.zipClosed = @ \/ ok,
                  !.err       = IF ok THEN Nil ELSE "io error"]

\* w.sink.Close(): the sink is not behind the archive's buffer, so only f decides
sinkClose(s, f) ==
    LET ok == Len(s.trace) + 1 # f
    IN  [s EXCEPT !.trace      = Append(@, IOEvent("SinkClose", File("sink"), Nil, ok)),
                  !.sinkClosed = TRUE,
                  !.err        = IF ok THEN Nil ELSE "io error"]

\* if err != nil { return fmt.Errorf(msg, err) }
OnErr(s, msg) == IF s.err # Nil THEN Fail(s, msg) ELSE s

\* _, err = io.Copy(writer, bytes.NewReader(data))
copyData(s, data, f) ==
    IF s.err # Nil THEN s ELSE entryWrite(s, Len(s.entries), data, f)

writeZipFile(s, name, data, f) == copyData(zipCreate(s, name, f), data, f)

----------------------------------------------------------------------------
(* Writer methods.  A method is the composition of its statements; a        *)
(* statement leaves the state alone once an earlier one has returned an     *)
(* error (s.err # Nil).                                                     *)

ErrAlreadyStarted   == "file already started"
ErrNotStarted       == "file not started, call StartFile first"
ErrFinishNotStarted == "file not started"
ErrAlreadyFinished  == "file already finished"
ErrLevelStarted     == "cannot change compression level after file started"
ErrBufferStarted    == "cannot change buffer size after file started"
ErrRowsStarted      == "cannot change max rows per sheet after file started"
ErrLevelRange       == "compression level must be between 0 and 9"
ErrBufferRange      == "buffer size must be at least 1024 bytes"
ErrRowsRange        == "max rows per sheet must be between 1 and 1048576"
ErrPanic            == "panic: index out of range"

\* the footer written, the sheet not marked closed
markClosed_Forgets(s, n) == s

\* lastSheet.closed = true, after its footer was written
markClosed(s, n) ==
    IF s.err # Nil THEN s ELSE [s EXCEPT !.sheetWriters[n].closed = TRUE]

\* write the closing marker of the last sheet of the list unless it is closed
closeSheet(s, f, msg) ==
    IF Len(s.sheetWriters) > 0 /\ ~s.sheetWriters[Len(s.sheetWriters)].closed
    THEN markClosed(OnErr(entryWrite(s, s.sheetWriters[Len(s.sheetWriters)].writer,
                                     worksheetFooter, f), msg),
                    Len(s.sheetWriters))
    ELSE s

\* sheets numbered from 0
createSheet_ZeroBased(s, f) ==
    IF s.err # Nil THEN s
    ELSE OnErr(zipCreate(s, SheetFile(Len(s.sheetWriters)), f), "failed to create sheet")

\* sheetNum := len(w.sheetWriters) + 1; writer, err := w.zipWriter.Create(sheetName)
createSheet(s, f) ==
    IF s.err # Nil THEN s
    ELSE OnErr(zipCreate(s, SheetFile(Len(s.sheetWriters) + 1), f), "failed to create sheet")

\* writer.Write([]byte(worksheetHeader + "\n"))
writeSheetHeader(s, f) ==
    IF s.err # Nil THEN s
    ELSE OnErr(entryWrite(s, Len(s.entries), worksheetHeader, f),
               "failed to write worksheet header")

newSheetWriter(w, sheetNum) ==
    [writer |-> w, rowCount |-> 0, sheetIndex |-> sheetNum - 1,
     headersDone |-> FALSE, closed |-> FALSE]

\* w.sheetWriters = append(w.sheetWriters, sw); w.currentSheetIndex = len(w.sheetWriters) - 1
appendSheet(s) ==
    IF s.err # Nil THEN s
    ELSE [s EXCEPT !.sheetWriters = Append(@, newSheetWriter(Len(s.entries), Len(@) + 1)),
                   !.currentSheetIndex = Len(s.sheetWriters)]

\* the next sheet's entry created before the previous sheet is closed
startNewSheet_CreatesFirst(s, f) ==
    appendSheet(writeSheetHeader(
        closeSheet(createSheet(s, f), f, "failed to close previous sheet"), f))

startNewSheet(s, f) ==
    appendSheet(writeSheetHeader(createSheet(
        closeSheet(s, f, "failed to close previous sheet"), f), f))

\* the rollover test with > for >=
needNewSheet_Gt(rowCount, maxRowsPerSheet) == rowCount > maxRowsPerSheet

\* the rollover test made on the count the sheet would have after the row
needNewSheet_Early(rowCount, maxRowsPerSheet) == rowCount + 1 >= maxRowsPerSheet

\* if currentWriter.rowCount >= w.config.MaxRowsPerSheet
needNewSheet(rowCount, maxRowsPerSheet) == rowCount >= maxRowsPerSheet

rollover(s, f) ==
    IF needNewSheet(s.sheetWriters[s.currentSheetIndex + 1].rowCount,
                    s.config.MaxRowsPerSheet)
    THEN startNewSheet(s, f)
    ELSE s

\* countRow without currentWriter.rowCount++
countRow_TotalOnly(s) ==
    IF s.err # Nil THEN s ELSE [s EXCEPT !.totalRows = @ + 1]

\* currentWriter.rowCount++; w.totalRows++
countRow(s) ==
    IF s.err # Nil THEN s
    ELSE [s EXCEPT !.sheetWriters[s.currentSheetIndex + 1].rowCount = @ + 1,
                   !.totalRows = @ + 1]

\* the row addressed by the document's row counter
appendRow_DocumentRow(s, values, f) ==
    IF s.err # Nil THEN s
    ELSE countRow(OnErr(
            entryWrite(s, s.sheetWriters[s.currentSheetIndex + 1].writer,
                       generateRow(s.totalRows, values), f),
            "failed to write row"))

\* rowXML := generateRow(currentWriter.rowCount, values); currentWriter.writer.Write(...)
appendRow(s, values, f) ==
    IF s.err # Nil THEN s
    ELSE countRow(OnErr(
            entryWrite(s, s.sheetWriters[s.currentSheetIndex + 1].writer,
                       generateRow(s.sheetWriters[s.currentSheetIndex + 1].rowCount, values),
                       f),
            "failed to write row"))

\* checkWritable without its test of w.finished
checkWritable_NoFinishedTest(s) ==
    IF ~s.started THEN ErrNotStarted ELSE Nil

\* if !w.started { return error }; if w.finished { return error }
checkWritable(s) ==
    IF ~s.started THEN ErrNotStarted
    ELSE IF s.finished THEN ErrAlreadyFinished
    ELSE Nil

\* w.sheetWriters[w.currentSheetIndex] panics on an empty sheet list
WriteRow(s, values, f) ==
    IF checkWritable(s) # Nil THEN Fail(s, checkWritable(s)) ELSE
    IF s.currentSheetIndex + 1 > Len(s.sheetWriters) THEN Fail(s, ErrPanic) ELSE
    appendRow(rollover(s, f), values, f)

\* the loop goes on after a row has failed
RECURSIVE WriteRows_GoesOn(_, _, _)
WriteRows_GoesOn(s, rows, f) ==
    IF rows = <<>> THEN s
    ELSE WriteRows_GoesOn(WriteRow([s EXCEPT !.err = Nil], Head(rows), f), Tail(rows), f)

RECURSIVE WriteRows(_, _, _)
WriteRows(s, rows, f) ==
    IF rows = <<>> \/ s.err # Nil THEN s
    ELSE WriteRows(WriteRow(s, Head(rows), f), Tail(rows), f)

writeRels(s, f) ==
    OnErr(writeZipFile(s, File("_rels/.rels"), relsXML, f), "failed to write _rels/.rels")

writeStyles(s, f) ==
    IF s.err # Nil THEN s
    ELSE OnErr(writeZipFile(s, File("xl/styles.xml"), stylesXML, f),
               "failed to write styles.xml")

startFirstSheet(s, f) == IF s.err # Nil THEN s ELSE startNewSheet(s, f)

\* the header row left in the document's total
headersDone_KeepsTotal(s) ==
    IF s.err # Nil THEN s
    ELSE [s EXCEPT !.sheetWriters[1].headersDone = TRUE]

\* w.sheetWriters[0].headersDone = true; w.totalRows--
headersDone(s) ==
    IF s.err # Nil THEN s
    ELSE [s EXCEPT !.sheetWriters[1].headersDone = TRUE, !.totalRows = @ - 1]

\* headers is the variadic argument: <<>> or <<row>>
writeHeaders(s, headers, f) ==
    IF s.err # Nil THEN s
    ELSE IF Len(headers) > 0 /\ Len(headers[1]) > 0
         THEN headersDone(OnErr(WriteRow(s, headers[1], f), "failed to write headers"))
         ELSE s

\* StartFile testing w.started only after it has written the first fixed entry
StartFile_LateTest(s, headers, f) ==
    IF s.started THEN Fail(writeRels(s, f), ErrAlreadyStarted)
    ELSE writeHeaders(startFirstSheet(writeStyles(writeRels(
            [s EXCEPT !.started = TRUE], f), f), f), headers, f)

StartFile(s, headers, f) ==
    IF s.started THEN Fail(s, ErrAlreadyStarted)
    ELSE writeHeaders(startFirstSheet(writeStyles(writeRels(
            [s EXCEPT !.started = TRUE], f), f), f), headers, f)

writeWorkbook(s, f) ==
    IF s.err # Nil THEN s
    ELSE OnErr(writeZipFile(s, File("xl/workbook.xml"),
                            generateWorkbookXML(Len(s.sheetWriters), s.config.SheetNamePrefix),
                            f),
               "failed to write workbook.xml")

writeWorkbookRels(s, f) ==
    IF s.err # Nil THEN s
    ELSE OnErr(writeZipFile(s, File("xl/_rels/workbook.xml.rels"),
                            generateWorkbookRelsXML(Len(s.sheetWriters)), f),
               "failed to write workbook.xml.rels")

writeContentTypes(s, f) ==
    IF s.err # Nil THEN s
    ELSE OnErr(writeZipFile(s, File("[Content_Types].xml"),
                            generateContentTypesXML(Len(s.sheetWriters)), f),
               "failed to write [Content_Types].xml")

closeZip(s, f) ==
    IF s.err # Nil THEN s ELSE OnErr(zipClose(s, f), "failed to close zip writer")

\* the error of sink.Close dropped
closeSink_IgnoresError(s, f) ==
    IF s.err # Nil THEN s ELSE [sinkClose(s, f) EXCEPT !.err = Nil]

\* sink.Close called a second time after it has returned
closeSink_Twice(s, f) ==
    IF s.err # Nil THEN s
    ELSE OnErr(sinkClose(sinkClose(s, f), f), "failed to close sink")

closeSink(s, f) ==
    IF s.err # Nil THEN s ELSE OnErr(sinkClose(s, f), "failed to close sink")

\* stats := &Stats{TotalRows: w.totalRows, TotalSheets: len(w.sheetWriters),
\* Duration: duration}: FileSize is not among the fields set and keeps its
\* zero value
makeStats(s) ==
    IF s.err # Nil THEN s
    ELSE [s EXCEPT !.stats = [TotalRows   |-> s.totalRows,
                              TotalSheets |-> Len(s.sheetWriters),
                              FileSize    |-> 0]]

\* checkFinishable without its test of w.finished
checkFinishable_NoFinishedTest(s) ==
    IF ~s.started THEN ErrFinishNotStarted ELSE Nil

\* if !w.started { return nil, error }; if w.finished { return nil, error }
checkFinishable(s) ==
    IF ~s.started THEN ErrFinishNotStarted
    ELSE IF s.finished THEN ErrAlreadyFinished
    ELSE Nil

\* the sink closed ahead of the archive
FinishFile_SinkFirst(s, f) ==
    IF checkFinishable(s) # Nil THEN Fail(s, checkFinishable(s)) ELSE
    makeStats(closeZip(closeSink(writeContentTypes(writeWorkbookRels(writeWorkbook(
        closeSheet([s EXCEPT !.finished = TRUE], f, "failed to write worksheet footer"),
        f), f), f), f), f))

\* w.finished set only once everything has succeeded
FinishFile_FinishedOnSuccess(s, f) ==
    IF checkFinishable(s) # Nil THEN Fail(s, checkFinishable(s)) ELSE
    [makeStats(closeSink(closeZip(writeContentTypes(writeWorkbookRels(writeWorkbook(
        closeSheet(s, f, "failed to write worksheet footer"), f), f), f), f), f))
     EXCEPT !.finished =
        makeStats(closeSink(closeZip(writeContentTypes(writeWorkbookRels(writeWorkbook(
            closeSheet(s, f, "failed to write worksheet footer"), f), f), f), f), f)).err = Nil]

FinishFile(s, f) ==
    IF checkFinishable(s) # Nil THEN Fail(s, checkFinishable(s)) ELSE
    makeStats(closeSink(closeZip(writeContentTypes(writeWorkbookRels(writeWorkbook(
        closeSheet([s EXCEPT !.finished = TRUE], f, "failed to write worksheet footer"),
        f), f), f), f), f))

SetCompressionLevel(s, level) ==
    IF s.started THEN Fail(s, ErrLevelStarted) ELSE
    IF level < MinLevel \/ level > MaxLevel THEN Fail(s, ErrLevelRange) ELSE
    [s EXCEPT !.config.CompressionLevel = level]

SetBufferSize(s, size) ==
    IF s.started THEN Fail(s, ErrBufferStarted) ELSE
    IF size < MinBufferSize THEN Fail(s, ErrBufferRange) ELSE
    [s EXCEPT !.config.BufferSize = size]

\* a ceiling of 0 accepted
SetMaxRowsPerSheet_AcceptsZero(s, rows) ==
    IF s.started THEN Fail(s, ErrRowsStarted) ELSE
    IF rows < 0 \/ rows > ExcelMaxRows THEN Fail(s, ErrRowsRange) ELSE
    [s EXCEPT !.config.MaxRowsPerSheet = rows]

SetMaxRowsPerSheet(s, rows) ==
    IF s.started THEN Fail(s, ErrRowsStarted) ELSE
    IF rows < 1 \/ rows > ExcelMaxRows THEN Fail(s, ErrRowsRange) ELSE
    [s EXCEPT !.config.MaxRowsPerSheet = rows]

----------------------------------------------------------------------------
(* Inputs *)

HeaderRow == <<StrV(<<"I", "D">>), StrV(<<"<", "v", ">">>)>>
DataRows  == { <<IntV(7), StrV(<<"a", "&", "b">>), BoolV(TRUE), NilV, FloatV(<<"3.5">>)>> }

\* StartFile(), StartFile([]interface{}{}) and StartFile(header)
HeaderArgs == { <<>>, << <<>> >>, <<HeaderRow>> }

Batches == UNION { [1..k -> DataRows] : k \in 0..MaxBatch }

Ceilings == (0..MaxCeiling) \cup {ExcelMaxRows, ExcelMaxRows + 1}
Levels   == {MinLevel - 1, MaxLevel, MaxLevel + 1}
CustomConfig == [DefaultConfig EXCEPT !.CompressionLevel = MaxLevel, !.BufferSize = MinBufferSize]
Sizes    == {MinBufferSize - 1, MinBufferSize}

\* NewWriter(sink) and NewWriter(sink, cfg): cfg is taken as it is
InitConfigs ==
    {DefaultConfig} \cup
    { [CustomConfig EXCEPT !.MaxRowsPerSheet = m, !.CompressionLevel = l] :
        m \in Ceilings, l \in {MaxLevel, MaxLevel + 1} }

\* ordinal of the first rejected archive/sink call of an invocation that issues
\* at most `calls` of them; 0: none is rejected
FailPoints(calls) == 0..calls

RECURSIVE SumRowCount(_)
SumRowCount(sws) ==
    IF sws = <<>> THEN 0 ELSE Head(sws).rowCount + SumRowCount(Tail(sws))

\* the document may take k more rows within the bound of the model
Room(k) == ~(started /\ ~finished) \/ SumRowCount(sheetWriters) + k <= MaxRows

\* rows accepted by an invocation: its successful writes of an encoded row
RowsWritten(trace) ==
    Cardinality({ i \in 1..Len(trace) :
                    trace[i].call = "Write" /\ trace[i].data = "row" /\ trace[i].ok })

----------------------------------------------------------------------------
(* S3Sink.  The sink is the record x of its fields; `fails` is the set of  *)
(* S3 client calls that return an error during the invocation (a method    *)
(* makes each call at most once).  The buffer is the sequence of the       *)
(* chunks written to it, a chunk being one Write's bytes: [w, size] are    *)
(* the bytes of the w-th Write.  x.log keeps every client call made, with  *)
(* the method that made it; x.accepted keeps every chunk Write has taken.  *)
(* Nothing in the code keeps Write from being called after Close, so the   *)
(* model allows it and x.reused records it.                                *)

RECURSIVE Bytes(_)
Bytes(chunks) == IF chunks = <<>> THEN 0 ELSE Head(chunks).size + Bytes(Tail(chunks))

\* the value NewS3Sink builds before it initiates the upload
NewSinkValue(partSize) ==
    [state          |-> "none",
     options        |-> [PartSize |-> partSize],
     uploadID       |-> Nil,
     buffer         |-> <<>>,
     partNumber     |-> 1,
     completedParts |-> <<>>,
     totalBytes     |-> 0,
     log            |-> <<>>,
     accepted       |-> <<>>,
     closes         |-> 0,
     closed         |-> FALSE,
     reused         |-> FALSE,
     op             |-> "none",
     arg            |-> 0,
     from           |-> 0,
     err            |-> Nil]

\* a method is entered; closed: Close has been called, reused: Write has been
\* called after Close
Enter(x, op, arg) ==
    [x EXCEPT !.op = op, !.arg = arg, !.from = Len(x.log), !.err = Nil,
              !.closed = @ \/ op = "Close",
              !.reused = @ \/ (op = "Write" /\ x.closed)]

\* a call on the S3 client, as the log keeps it
ClientCall(x, call, body, parts, ok) ==
    [op |-> x.op, call |-> call, PartNumber |-> x.partNumber, body |-> body,
     parts |-> parts, ok |-> ok]

\* s.client.CreateMultipartUpload; s.uploadID = result.UploadId
initiateMultipartUpload(x, fails) ==
    IF "CreateMultipartUpload" \in fails
    THEN [x EXCEPT !.log = Append(@, ClientCall(x, "CreateMultipartUpload", <<>>, <<>>, FALSE)),
                   !.err = "access denied"]
    ELSE [x EXCEPT !.log = Append(@, ClientCall(x, "CreateMultipartUpload", <<>>, <<>>, TRUE)),
                   !.uploadID = "upload-id"]

\* the part is recorded without the part number moving on
ackPart_SameNumber(x) ==
    [x EXCEPT !.completedParts = Append(@, [ETag |-> Len(x.log), PartNumber |-> x.partNumber]),
              !.buffer = <<>>]

\* the part is recorded without the buffer being reset
ackPart_KeepsBuffer(x) ==
    [x EXCEPT !.completedParts = Append(@, [ETag |-> Len(x.log), PartNumber |-> x.partNumber]),
              !.partNumber = @ + 1]

\* append to completedParts; s.buffer.Reset(); s.partNumber++
ackPart(x) ==
    [x EXCEPT !.completedParts = Append(@, [ETag |-> Len(x.log), PartNumber |-> x.partNumber]),
              !.buffer = <<>>,
              !.partNumber = @ + 1]

\* a rejected part uses up its part number
uploadPart_SkipsNumber(x, fails) ==
    IF Bytes(x.buffer) = 0 THEN x ELSE
    IF "UploadPart" \in fails
    THEN [x EXCEPT !.log = Append(@, ClientCall(x, "UploadPart", x.buffer, <<>>, FALSE)),
                   !.err = "network error",
                   !.partNumber = @ + 1]
    ELSE ackPart([x EXCEPT !.log = Append(@, ClientCall(x, "UploadPart", x.buffer, <<>>, TRUE))])

\* the current buffer is uploaded as one part; the ETag names the acknowledgment
uploadPart(x, fails) ==
    IF Bytes(x.buffer) = 0 THEN x ELSE
    IF "UploadPart" \in fails
    THEN [x EXCEPT !.log = Append(@, ClientCall(x, "UploadPart", x.buffer, <<>>, FALSE)),
                   !.err = "network error"]
    ELSE ackPart([x EXCEPT !.log = Append(@, ClientCall(x, "UploadPart", x.buffer, <<>>, TRUE))])

completeMultipartUpload(x, fails) ==
    IF "CompleteMultipartUpload" \in fails
    THEN [x EXCEPT !.log = Append(@, ClientCall(x, "CompleteMultipartUpload", <<>>,
                                                x.completedParts, FALSE)),
                   !.err = "internal error"]
    ELSE [x EXCEPT !.log = Append(@, ClientCall(x, "CompleteMultipartUpload", <<>>,
                                                x.completedParts, TRUE))]

abortMultipartUpload(x, fails) ==
    IF x.uploadID = Nil THEN x ELSE
    IF "AbortMultipartUpload" \in fails
    THEN [x EXCEPT !.log = Append(@, ClientCall(x, "AbortMultipartUpload", <<>>, <<>>, FALSE)),
                   !.err = "abort failed"]
    ELSE [x EXCEPT !.log = Append(@, ClientCall(x, "AbortMultipartUpload", <<>>, <<>>, TRUE))]

\* return fmt.Errorf(msg, err) if the step before failed
SinkErr(x, msg) == IF x.err # Nil THEN [x EXCEPT !.err = msg] ELSE x

ErrPartSize == "part size must be at least 5MB"

\* the session initiated before the part size is looked at
NewS3Sink_InitiatesFirst(partSize, fails) ==
    IF initiateMultipartUpload(Enter(NewSinkValue(partSize), "NewS3Sink", partSize), fails).err # Nil
    THEN [SinkErr(initiateMultipartUpload(Enter(NewSinkValue(partSize), "NewS3Sink", partSize), fails),
                  "failed to initiate multipart upload") EXCEPT !.state = "failed"]
    ELSE IF partSize < MinPartSize
    THEN [initiateMultipartUpload(Enter(NewSinkValue(partSize), "NewS3Sink", partSize), fails)
            EXCEPT !.err = ErrPartSize, !.state = "failed"]
    ELSE [initiateMultipartUpload(Enter(NewSinkValue(partSize), "NewS3Sink", partSize), fails)
            EXCEPT !.state = "ready"]

\* state "failed": NewS3Sink returned nil and an error; "ready": a sink
sinkOrNil(x) == [x EXCEPT !.state = IF x.err = Nil THEN "ready" ELSE "failed"]

NewS3Sink(partSize, fails) ==
    IF partSize < MinPartSize
    THEN sinkOrNil([Enter(NewSinkValue(partSize), "NewS3Sink", partSize) EXCEPT !.err = ErrPartSize])
    ELSE sinkOrNil(SinkErr(initiateMultipartUpload(
                               Enter(NewSinkValue(partSize), "NewS3Sink", partSize), fails),
                           "failed to initiate multipart upload"))

\* the bytes buffered without being counted
bufferWrite_Uncounted(x, size) ==
    [x EXCEPT !.buffer   = Append(@, [w |-> Len(x.accepted) + 1, size |-> size]),
              !.accepted = Append(@, [w |-> Len(x.accepted) + 1, size |-> size])]

\* n, err = s.buffer.Write(p); s.totalBytes += int64(n)
bufferWrite(x, size) ==
    [x EXCEPT !.buffer     = Append(@, [w |-> Len(x.accepted) + 1, size |-> size]),
              !.accepted   = Append(@, [w |-> Len(x.accepted) + 1, size |-> size]),
              !.totalBytes = @ + size]

\* a part only when the buffer holds more than the part size
needsUpload_Gt(len, partSize) == len > partSize

\* a part whenever the buffer holds anything
needsUpload_Always(len, partSize) == len > 0

\* if s.buffer.Len() >= int(s.options.PartSize)
needsUpload(len, partSize) == len >= partSize

\* a failed upload is tried a second time before Write gives up
flush_Retries(x, fails) ==
    IF ~needsUpload(Bytes(x.buffer), x.options.PartSize) THEN x
    ELSE IF uploadPart(x, fails).err = Nil THEN uploadPart(x, fails)
    ELSE SinkErr(uploadPart([uploadPart(x, fails) EXCEPT !.err = Nil], fails),
                 "failed to upload part")

flush(x, fails) ==
    IF needsUpload(Bytes(x.buffer), x.options.PartSize)
    THEN SinkErr(uploadPart(x, fails), "failed to upload part")
    ELSE x

S3SinkWrite(x, size, fails) == flush(bufferWrite(Enter(x, "Write", size), size), fails)

\* the bytes left in the buffer are not uploaded
uploadRest_Skips(x, fails) == x

\* if s.buffer.Len() > 0 { uploadPart }
uploadRest(x, fails) ==
    IF Bytes(x.buffer) > 0
    THEN SinkErr(uploadPart(x, fails), "failed to upload final part")
    ELSE x

\* _ = s.abortMultipartUpload(): the abort's own error is dropped
abortAfter(x, fails) ==
    [abortMultipartUpload(x, fails) EXCEPT !.err = "failed to complete multipart upload"]

complete(x, fails) ==
    IF x.err # Nil THEN x
    ELSE IF completeMultipartUpload(x, fails).err # Nil
         THEN abortAfter(completeMultipartUpload(x, fails), fails)
         ELSE completeMultipartUpload(x, fails)

countClose(x) == [x EXCEPT !.closes = @ + 1]

S3SinkClose(x, fails) == complete(uploadRest(countClose(Enter(x, "Close", 0)), fails), fails)

S3SinkAbort(x, fails) == abortMultipartUpload(countClose(Enter(x, "Abort", 0)), fails)

\* The answers of the S3 client during one S3SinkFromReader call: its
\* o.upload-th UploadPart call fails (0: none does), and so does every call
\* named in o.others.
UploadCalls(x) == Cardinality({ i \in 1..Len(x.log) : x.log[i].call = "UploadPart" })

failsNow(x, o) ==
    (IF UploadCalls(x) + 1 = o.upload THEN {"UploadPart"} ELSE {}) \cup o.others

\* io.Copy(sink, reader): one Write per chunk read, until a Write fails
RECURSIVE ioCopy(_, _, _)
ioCopy(x, reads, o) ==
    IF reads = <<>> \/ x.err # Nil THEN x
    ELSE ioCopy(S3SinkWrite(x, Head(reads), failsNow(x, o)), Tail(reads), o)

\* if err != nil { _ = sink.Abort(); return "failed to copy data" }; return sink.Close()
abortOrClose(x, o) ==
    IF x.err # Nil
    THEN [S3SinkAbort(x, failsNow(x, o)) EXCEPT !.err = "failed to copy data"]
    ELSE S3SinkClose(x, failsNow(x, o))

\* sink, err := NewS3Sink(...); if err != nil { return err }
copyAndClose(x, reads, o) ==
    IF x.err # Nil THEN x ELSE abortOrClose(ioCopy(x, reads, o), o)

S3SinkFromReader(partSize, reads, o) ==
    copyAndClose(NewS3Sink(partSize, o.others), reads, o)

\* return s.totalBytes
TotalBytes(x) == x.totalBytes

\* return len(s.completedParts)
PartCount(x) == Len(x.completedParts)

\* NewS3Sink() and NewS3Sink(&S3Options{PartSize: n})
PartSizes == {MinPartSize - 1, MinPartSize, DefaultPartSize}

\* len(p) of the Write calls
WriteSizes == {2 * MiB, 3 * MiB, 5 * MiB, 12 * MiB}

ClientCalls == {"CreateMultipartUpload", "UploadPart", "CompleteMultipartUpload",
                "AbortMultipartUpload"}

\* no NewS3Sink call yet
NoS3Sink == s3sink = NewSinkValue(0)

\* no package-level function called on its own
NoCall == fcall = [fn |-> "none", args |-> <<>>, result |-> <<>>]

----------------------------------------------------------------------------
(* The state machine *)

\* the Writer that NewWriter returns for the configuration cfg
NewWriter(cfg) ==
    /\ started = FALSE
    /\ finished = FALSE
    /\ config = cfg
    /\ sheetWriters = <<>>
    /\ currentSheetIndex = 0
    /\ totalRows = 0
    /\ entries = <<>>
    /\ zipErr = FALSE
    /\ zipClosed = FALSE
    /\ sinkClosed = FALSE
    /\ ioTrace = <<>>
    /\ last = [op |-> "NewWriter", arg |-> 0, err |-> Nil, stats |-> NoStats]
    /\ rowsAccepted = 0
    /\ atStart = DefaultConfig      \* not read before StartFile
    /\ peerStarted = FALSE

Init == (\E cfg \in InitConfigs : NewWriter(cfg)) /\ NoS3Sink /\ NoCall

\* the Writer after a method call that left it as s
WriterReturn(op, arg, s) ==
    /\ started' = s.started
    /\ finished' = s.finished
    /\ config' = s.config
    /\ sheetWriters' = s.sheetWriters
    /\ currentSheetIndex' = s.currentSheetIndex
    /\ totalRows' = s.totalRows
    /\ entries' = s.entries
    /\ zipErr' = s.zipErr
    /\ zipClosed' = s.zipClosed
    /\ sinkClosed' = s.sinkClosed
    /\ ioTrace' = s.trace
    /\ last' = [op |-> op, arg |-> arg, err |-> s.err, stats |-> s.stats]
    /\ rowsAccepted' = rowsAccepted +
            (IF op \in {"WriteRow", "WriteRows"} THEN RowsWritten(s.trace) ELSE 0)
    /\ atStart' = (IF op = "StartFile" /\ ~started THEN config ELSE atStart)

\* the state after a method call that left the Writer as s
Return(op, arg, s) ==
    /\ WriterReturn(op, arg, s)
    /\ UNCHANGED <<peerStarted, s3sink, fcall>>

CallStartFile ==
    \E headers \in HeaderArgs, f \in FailPoints(10) :
        Return("StartFile", Len(headers), StartFile(St, headers, f))

CallWriteRow ==
    \E values \in DataRows, f \in FailPoints(4) :
        /\ Room(1)
        /\ Return("WriteRow", 1, WriteRow(St, values, f))

CallWriteRows ==
    \E rows \in Batches :
        /\ Room(Len(rows))
        /\ \E f \in FailPoints(4 * Len(rows)) : Return("WriteRows", Len(rows), WriteRows(St, rows, f))

CallFinishFile ==
    \E f \in FailPoints(9) : Return("FinishFile", 0, FinishFile(St, f))

CallSetCompressionLevel ==
    \E level \in Levels : Return("SetCompressionLevel", level, SetCompressionLevel(St, level))

CallSetBufferSize ==
    \E size \in Sizes : Return("SetBufferSize", size, SetBufferSize(St, size))

CallSetMaxRowsPerSheet ==
    \E rows \in Ceilings : Return("SetMaxRowsPerSheet", rows, SetMaxRowsPerSheet(St, rows))

Next ==
    \/ CallStartFile
    \/ CallWriteRow
    \/ CallWriteRows
    \/ CallFinishFile
    \/ CallSetCompressionLevel
    \/ CallSetBufferSize
    \/ CallSetMaxRowsPerSheet

Spec == Init /\ [][Next]_vars

----------------------------------------------------------------------------
(* Two Writers made from one *Config.  NewWriter keeps the pointer it is   *)
(* given, so the peer's setters write the configuration this Writer reads. *)
(* Of the peer only `started` is modelled: its archive and sink are its    *)
(* own and nothing of them is read by this Writer.                         *)

\* the peer as its setters see it: its own started flag, the shared config
PeerSt == [St EXCEPT !.started = peerStarted]

CallPeerStartFile ==
    /\ peerStarted' = TRUE
    /\ UNCHANGED <<writerVars, s3sink, fcall>>

PeerReturn(s) ==
    /\ config' = s.config
    /\ UNCHANGED <<started, finished, sheetWriters, currentSheetIndex, totalRows,
                   entries, zipErr, zipClosed, sinkClosed, ioTrace, last, rowsAccepted,
                   atStart, peerStarted, s3sink, fcall>>

\* one value in range and one out of range for each of the peer's setters
PeerLevels   == {MaxLevel, MaxLevel + 1}
PeerCeilings == {0, 1}

CallPeerSetCompressionLevel ==
    \E level \in PeerLevels : PeerReturn(SetCompressionLevel(PeerSt, level))

CallPeerSetMaxRowsPerSheet ==
    \E rows \in PeerCeilings : PeerReturn(SetMaxRowsPerSheet(PeerSt, rows))

\* this Writer starts, writes and finishes; the peer starts and calls setters
SharedNext ==
    \/ CallStartFile
    \/ CallWriteRow
    \/ CallFinishFile
    \/ CallPeerStartFile
    \/ CallPeerSetCompressionLevel
    \/ CallPeerSetMaxRowsPerSheet

\* both Writers made by NewWriter(sink, cfg) from one cfg with a small ceiling
SharedInit == NewWriter([DefaultConfig EXCEPT !.MaxRowsPerSheet = MaxCeiling]) /\ NoS3Sink /\ NoCall

SharedSpec == SharedInit /\ [][SharedNext]_vars

----------------------------------------------------------------------------
(* An S3Sink driven directly: constructed once, then written to, closed    *)
(* and aborted in any order, every client call free to fail.               *)

SinkReturn(x) ==
    /\ s3sink' = x
    /\ UNCHANGED <<writerVars, peerStarted, fcall>>

CallNewS3Sink ==
    /\ s3sink.state = "none"
    /\ \E partSize \in PartSizes, fails \in SUBSET {"CreateMultipartUpload"} :
          SinkReturn(NewS3Sink(partSize, fails))

CallS3SinkWrite ==
    /\ s3sink.state = "ready"
    /\ Len(s3sink.accepted) < MaxWrites
    /\ \E size \in WriteSizes, fails \in SUBSET {"UploadPart"} :
          SinkReturn(S3SinkWrite(s3sink, size, fails))

CallS3SinkClose ==
    /\ s3sink.state = "ready"
    /\ s3sink.closes < MaxCloses
    /\ \E fails \in SUBSET (ClientCalls \ {"CreateMultipartUpload"}) :
          SinkReturn(S3SinkClose(s3sink, fails))

CallS3SinkAbort ==
    /\ s3sink.state = "ready"
    /\ s3sink.closes < MaxCloses
    /\ \E fails \in SUBSET {"AbortMultipartUpload"} :
          SinkReturn(S3SinkAbort(s3sink, fails))

SinkNext ==
    \/ CallNewS3Sink
    \/ CallS3SinkWrite
    \/ CallS3SinkClose
    \/ CallS3SinkAbort

SinkInit == NewWriter(DefaultConfig) /\ NoS3Sink /\ NoCall

SinkSpec == SinkInit /\ [][SinkNext]_vars

----------------------------------------------------------------------------
(* S3SinkFromReader: a sink of its own for every call *)

MaxReads == 2

\* what the reader hands to io.Copy, chunk by chunk
RECURSIVE ReadsOf(_)
ReadsOf(n) ==
    IF n = 0 THEN {<<>>}
    ELSE ReadsOf(n - 1) \cup { Append(r, size) : r \in ReadsOf(n - 1), size \in WriteSizes }

Readers == ReadsOf(MaxReads)

ClientAnswers ==
    [upload : 0..(MaxReads + 1),
     others : SUBSET {"CreateMultipartUpload", "CompleteMultipartUpload",
                      "AbortMultipartUpload"}]

CallS3SinkFromReader ==
    /\ s3sink.state = "none"
    /\ \E partSize \in PartSizes, reads \in Readers, o \in ClientAnswers :
          SinkReturn(S3SinkFromReader(partSize, reads, o))

ReaderNext == CallS3SinkFromReader

ReaderSpec == SinkInit /\ [][ReaderNext]_vars

----------------------------------------------------------------------------
(* An export: StartFile, WriteRow as often as the caller likes, FinishFile, *)
(* on a Writer whose sink is an S3Sink, with no call failing.  The archive  *)
(* buffers what it is given; `size` is the number of bytes it hands to      *)
(* sink.Write during a method call (0: it keeps them buffered).             *)

ExportSizes == {0, 2 * MiB, 5 * MiB}

\* zip.NewWriter(w.sink): the archive's writes arrive as sink.Write(p)
sinkWrite(x, size) == IF size = 0 THEN x ELSE S3SinkWrite(x, size, {})

\* the method call reached w.sink.Close()
ReachedSinkClose(trace) == \E i \in 1..Len(trace) : trace[i].call = "SinkClose"

\* the sink never closed by the Writer
driveSink_NeverCloses(x, trace, size) == sinkWrite(x, size)

\* what a method call of the Writer does to its sink
driveSink(x, trace, size) ==
    IF ReachedSinkClose(trace)
    THEN S3SinkClose(sinkWrite(x, size), {})
    ELSE sinkWrite(x, size)

ExportReturn(op, arg, s, size) ==
    /\ WriterReturn(op, arg, s)
    /\ s3sink' = driveSink(s3sink, s.trace, size)
    /\ UNCHANGED <<peerStarted, fcall>>

CallExportStartFile ==
    /\ ~started
    /\ \E headers \in HeaderArgs, size \in ExportSizes :
          ExportReturn("StartFile", Len(headers), StartFile(St, headers, 0), size)

CallExportWriteRow ==
    /\ started /\ ~finished
    /\ Room(1)
    /\ \E values \in DataRows, size \in ExportSizes :
          ExportReturn("WriteRow", 1, WriteRow(St, values, 0), size)

\* zipWriter.Close() writes the archive's directory: size > 0
CallExportFinishFile ==
    /\ started /\ ~finished
    /\ \E size \in ExportSizes \ {0} :
          ExportReturn("FinishFile", 0, FinishFile(St, 0), size)

ExportNext ==
    \/ CallExportStartFile
    \/ CallExportWriteRow
    \/ CallExportFinishFile

\* NewWriter(sink, cfg) over the sink that NewS3Sink returned
ExportInit ==
    /\ NewWriter([DefaultConfig EXCEPT !.MaxRowsPerSheet = MaxCeiling])
    /\ \E partSize \in PartSizes \ {MinPartSize - 1} : s3sink = NewS3Sink(partSize, {})
    /\ NoCall

\* The caller goes on until FinishFile has returned: weak fairness of
\* ExportNext.  A call is possible exactly while the Writer is not finished
\* (StartFile before the start, WriteRow and FinishFile after it), so
\* ENABLED <<ExportNext>>_vars is ~finished, and WF_vars(ExportNext) is
\* written with that enabling condition in place of ENABLED.
ExportFairness == []<>finished \/ []<><<ExportNext>>_vars

ExportSpec == ExportInit /\ [][ExportNext]_vars /\ ExportFairness

----------------------------------------------------------------------------
(* The package-level functions of sink.go, each applied once to arguments  *)
(* of its own.                                                             *)

MaxSheetCount == 999    \* worksheets of a workbook
MaxColumn == 702        \* zero-based column indices
MaxRowIndex == 2        \* zero-based row indices
MaxCells == 2           \* values in a row

\* one value of every kind the type switch of generateRow tells apart, and
\* of kinds it does not name (a struct, a nil pointer)
CellValues ==
    {StrV(<<"a", "&", "<">>), StrV(<<>>), IntV(42), FloatV(<<"3.14159">>),
     BoolV(TRUE), BoolV(FALSE), NilV, OtherV(<<"{", "1", "}">>),
     OtherV(<<"<", "nil", ">">>)}

CellRows == UNION { [1..k -> CellValues] : k \in 0..MaxCells }

FunctionReturn(fn, args, result) ==
    /\ fcall' = [fn |-> fn, args |-> args, result |-> result]
    /\ UNCHANGED <<writerVars, peerStarted, s3sink>>

CallGenerateWorkbookRelsXML ==
    /\ fcall.fn = "none"
    /\ \E sheetCount \in 1..MaxSheetCount :
          FunctionReturn("generateWorkbookRelsXML", <<sheetCount>>,
                         generateWorkbookRelsXML(sheetCount))

CallColumnName ==
    /\ fcall.fn = "none"
    /\ \E col \in 0..MaxColumn :
          FunctionReturn("columnName", <<col>>, columnName(col))

CallCellReference ==
    /\ fcall.fn = "none"
    /\ \E row \in 0..MaxRowIndex, col \in 0..MaxColumn :
          FunctionReturn("cellReference", <<row, col>>, cellReference(row, col))

CallGenerateRow ==
    /\ fcall.fn = "none"
    /\ \E rowIndex \in 0..MaxRowIndex, values \in CellRows :
          FunctionReturn("generateRow", <<rowIndex, values>>, generateRow(rowIndex, values))

FunctionNext ==
    \/ CallGenerateWorkbookRelsXML
    \/ CallColumnName
    \/ CallCellReference
    \/ CallGenerateRow

FunctionInit == NewWriter(DefaultConfig) /\ NoS3Sink /\ NoCall

FunctionSpec == FunctionInit /\ [][FunctionNext]_vars

----------------------------------------------------------------------------
(* Claims *)

LifecycleErrs ==
    {ErrAlreadyStarted, ErrNotStarted, ErrFinishNotStarted, ErrAlreadyFinished,
     ErrLevelStarted, ErrBufferStarted, ErrRowsStarted}

WriterFields == <<started, finished, config, sheetWriters, currentSheetIndex, totalRows>>
Destination  == <<entries, zipErr, zipClosed, sinkClosed>>

\* C1: lifecycle enforcement.  In every step, a WriteRow on a Writer that is not
\* started, a StartFile on a started Writer, a FinishFile on a Writer that is
\* not started, a FinishFile on a finished Writer and a WriteRow on a finished
\* Writer each return a lifecycle error.
C1_LifecycleEnforcement ==
    [][ /\ (last'.op = "WriteRow" /\ ~started => last'.err \in LifecycleErrs)
        /\ (last'.op = "StartFile" /\ started => last'.err \in LifecycleErrs)
        /\ (last'.op = "FinishFile" /\ ~started => last'.err \in LifecycleErrs)
        /\ (last'.op = "FinishFile" /\ finished => last'.err \in LifecycleErrs)
        /\ (last'.op = "WriteRow" /\ finished => last'.err \in LifecycleErrs) ]_vars

\* a WriteRow was rejected on a document that FinishFile had completed
C1_Witness ==
    /\ last.op = "WriteRow"
    /\ last.err = ErrAlreadyFinished
    /\ finished /\ zipClosed /\ sinkClosed

\* C2: a call rejected for the Writer's lifecycle state issues no archive or
\* sink call and leaves every field of the Writer and the destination as it was.
C2_RejectionHasNoEffect ==
    [][ last'.err \in LifecycleErrs =>
            /\ UNCHANGED WriterFields
            /\ UNCHANGED Destination
            /\ ioTrace' = <<>> ]_vars

\* a second StartFile was rejected on a document that already holds rows
C2_Witness ==
    /\ last.op = "StartFile"
    /\ last.err = ErrAlreadyStarted
    /\ started /\ ~finished /\ totalRows > 0

----------------------------------------------------------------------------
(* The finished document *)

Ceil(a, b) == (a + b - 1) \div b
Max(a, b)  == IF a >= b THEN a ELSE b

\* the last call was a FinishFile that returned Stats and no error
FinishOK == last.op = "FinishFile" /\ last.err = Nil

IsSheetEntry(e) == e.name.path = "xl/worksheets/sheet%d.xml"
SheetEntries    == SelectSeq(entries, IsSheetEntry)

IsRow(d)  == d.kind = "row"
RowsOf(e) == SelectSeq(e.body, IsRow)

RECURSIVE SumRows(_)
SumRows(es) == IF es = <<>> THEN 0 ELSE Len(RowsOf(Head(es))) + SumRows(Tail(es))

\* StartFile wrote a header row
HeaderWritten == Len(sheetWriters) > 0 /\ sheetWriters[1].headersDone
HeaderCount   == IF HeaderWritten THEN 1 ELSE 0

C4_RolloverBoundary ==
    (FinishOK /\ ~HeaderWritten /\ config.MaxRowsPerSheet >= 1 /\ rowsAccepted >= 1) =>
        LET c == config.MaxRowsPerSheet
            k == Ceil(rowsAccepted, c)
            r == rowsAccepted - c * (k - 1)
        IN  /\ Len(sheetWriters) = k
            /\ Len(SheetEntries) = k
            /\ r \in 1..c
            /\ \A i \in 1..k :
                  /\ sheetWriters[i].rowCount = (IF i < k THEN c ELSE r)
                  /\ Len(RowsOf(SheetEntries[i])) = (IF i < k THEN c ELSE r)
                  /\ SheetEntries[i].name = SheetFile(i)

\* c + 1 rows on ceiling c = 2: two sheets holding 2 and 1 rows
C4_Witness ==
    /\ FinishOK
    /\ ~HeaderWritten
    /\ config.MaxRowsPerSheet = 2
    /\ rowsAccepted = 3
    /\ Len(sheetWriters) = 2

\* the entry of worksheet 1 starts with the worksheet header and the header row
HeaderIsRowOneOfSheetOne ==
    /\ Len(SheetEntries) >= 1
    /\ SheetEntries[1].name = SheetFile(1)
    /\ Len(SheetEntries[1].body) >= 2
    /\ SheetEntries[1].body[1].kind = "worksheetHeader"
    /\ SheetEntries[1].body[2] = generateRow(0, HeaderRow)

\* C5: header exclusion.  After StartFile with a non-empty header and N data
\* rows, FinishFile reports TotalRows = N, the header is physical row 1 of
\* worksheet 1, and worksheet 1 counts it: N + 1 rows when there is one sheet.
C5_HeaderExclusion ==
    (FinishOK /\ HeaderWritten) =>
        /\ last.stats.TotalRows = rowsAccepted
        /\ HeaderIsRowOneOfSheetOne
        /\ sheetWriters[1].rowCount >= 1
        /\ (Len(sheetWriters) = 1 => sheetWriters[1].rowCount = rowsAccepted + 1)

\* the same for the Writers whose ceiling is at least 1
C5_ValidCeiling ==
    config.MaxRowsPerSheet >= 1 => C5_HeaderExclusion

\* the archive entry that sheet writer sw writes to
EntryOf(sw) == entries[sw.writer]

IsFooter(d)  == d.kind = "worksheetFooter"
FootersOf(e) == SelectSeq(e.body, IsFooter)

\* no sheet holds more rows than the ceiling
WithinCeiling ==
    \A i \in 1..Len(sheetWriters) :
        /\ sheetWriters[i].rowCount <= config.MaxRowsPerSheet
        /\ Len(RowsOf(EntryOf(sheetWriters[i]))) <= config.MaxRowsPerSheet

\* a row was accepted while the open sheet held exactly the ceiling
RowAcceptedOnFullSheet ==
    /\ last'.op = "WriteRow"
    /\ last'.err = Nil
    /\ Len(sheetWriters) > 0
    /\ sheetWriters[Len(sheetWriters)].rowCount = config.MaxRowsPerSheet

\* it became row 1 of a new sheet, and the full sheet kept its rows
RowOpensNewSheet ==
    LET n == Len(sheetWriters)
    IN  /\ Len(sheetWriters') = n + 1
        /\ sheetWriters'[n].rowCount = sheetWriters[n].rowCount
        /\ RowsOf(entries'[sheetWriters[n].writer]) = RowsOf(entries[sheetWriters[n].writer])
        /\ sheetWriters'[n + 1].rowCount = 1
        /\ currentSheetIndex' = n
        /\ LET e == entries'[sheetWriters'[n + 1].writer]
           IN  /\ e.name = SheetFile(n + 1)
               /\ Len(RowsOf(e)) = 1
               /\ RowsOf(e)[1].n = 1

\* C6: with a ceiling c >= 1 no worksheet ever holds more than c rows, and a
\* row accepted while the open sheet holds c rows becomes row 1 of a new sheet.
C6_CeilingInvariant ==
    /\ [](config.MaxRowsPerSheet >= 1 => WithinCeiling)
    /\ [][(config.MaxRowsPerSheet >= 1 /\ RowAcceptedOnFullSheet) => RowOpensNewSheet]_vars

\* a second sheet holds one row after the first one was filled to the ceiling
C6_Witness ==
    /\ last.op = "WriteRow"
    /\ last.err = Nil
    /\ config.MaxRowsPerSheet = 2
    /\ Len(sheetWriters) = 2
    /\ sheetWriters[1].rowCount = 2
    /\ sheetWriters[2].rowCount = 1

\* every sheet but the last is closed; a sheet's entry holds its closing
\* marker once, as its last item, if the sheet is closed and not at all if not
OneOpenSheet ==
    \A i \in 1..Len(sheetWriters) :
        LET sw == sheetWriters[i]
            e  == EntryOf(sw)
        IN  /\ (i < Len(sheetWriters) => sw.closed)
            /\ Len(FootersOf(e)) = (IF sw.closed THEN 1 ELSE 0)
            /\ (sw.closed => IsFooter(e.body[Len(e.body)]))

\* a closed sheet stays closed and its entry receives nothing more
ClosedStaysClosed ==
    /\ Len(sheetWriters') >= Len(sheetWriters)
    /\ \A i \in 1..Len(sheetWriters) :
          sheetWriters[i].closed =>
              /\ sheetWriters'[i] = sheetWriters[i]
              /\ entries'[sheetWriters[i].writer] = entries[sheetWriters[i].writer]

\* C7: at most one worksheet is open at any time, a closed worksheet is never
\* reopened or written to, and its closing marker is written exactly once.
C7_OneOpenSheet ==
    /\ []OneOpenSheet
    /\ [][ClosedStaysClosed]_vars

\* a finished document of three sheets, each closed
C7_Witness ==
    /\ FinishOK
    /\ Len(sheetWriters) = 3
    /\ \A i \in 1..3 : sheetWriters[i].closed

----------------------------------------------------------------------------
(* Finalization *)

WorkbookPath     == "xl/workbook.xml"
WorkbookRelsPath == "xl/_rels/workbook.xml.rels"
ContentTypesPath == "[Content_Types].xml"
TocPaths         == {WorkbookPath, WorkbookRelsPath, ContentTypesPath}

IsToc(e) == e.name.path \in TocPaths

\* an archive or sink call without its outcome
Step(e) == <<e.call, e.target, e.data>>

\* the calls of a complete FinishFile; footer: the last sheet is still open
FinishSteps(footer) ==
    (IF footer
     THEN << <<"Write", SheetFile(Len(sheetWriters)), "worksheetFooter">> >>
     ELSE <<>>) \o
    << <<"Create", File(WorkbookPath), Nil>>,
       <<"Write", File(WorkbookPath), "workbookXML">>,
       <<"Create", File(WorkbookRelsPath), Nil>>,
       <<"Write", File(WorkbookRelsPath), "workbookRelsXML">>,
       <<"Create", File(ContentTypesPath), Nil>>,
       <<"Write", File(ContentTypesPath), "contentTypesXML">>,
       <<"ZipClose", File("archive"), Nil>>,
       <<"SinkClose", File("sink"), Nil>> >>

LastSheetOpen == Len(sheetWriters) > 0 /\ ~sheetWriters[Len(sheetWriters)].closed

\* FinishFile ran on an in-progress document
FinishRuns == last'.op = "FinishFile" /\ started /\ ~finished

\* its calls are the steps in their order up to the first one that failed
FinishInOrder ==
    /\ finished'
    /\ Len(ioTrace') >= 1
    /\ Len(ioTrace') <= Len(FinishSteps(LastSheetOpen))
    /\ \A i \in 1..Len(ioTrace') :
          /\ Step(ioTrace'[i]) = FinishSteps(LastSheetOpen)[i]
          /\ ioTrace'[i].ok = (i < Len(ioTrace') \/ last'.err = Nil)
    /\ (last'.err = Nil) => Len(ioTrace') = Len(FinishSteps(LastSheetOpen))

AllSheetsClosed == \A i \in 1..Len(sheetWriters) : sheetWriters[i].closed

\* each entry of the table of contents exists at most once
TocOnce ==
    \A i, j \in 1..Len(entries) :
        (IsToc(entries[i]) /\ entries[i].name = entries[j].name) => i = j

\* C8: on an in-progress document FinishFile performs, in this order and each
\* at most once: the closing marker of the open worksheet, xl/workbook.xml,
\* xl/_rels/workbook.xml.rels, [Content_Types].xml, the close of the archive,
\* the close of the sink.  No table-of-contents entry exists before the last
\* worksheet is closed and the sink is never closed before the archive.
C8_FinishOrder ==
    /\ [][FinishRuns => FinishInOrder]_vars
    /\ []((\E i \in 1..Len(entries) : IsToc(entries[i])) => AllSheetsClosed)
    /\ [](sinkClosed => zipClosed)
    /\ []TocOnce

\* a complete FinishFile that closed the second sheet of a document
C8_Witness ==
    /\ FinishOK
    /\ Len(ioTrace) = 9
    /\ Len(sheetWriters) = 2
    /\ zipClosed /\ sinkClosed

\* the data of the table-of-contents entry at path p, if written
TocData(p) ==
    { entries[j].body[1] : j \in { k \in 1..Len(entries) :
                                     entries[k].name.path = p /\ entries[k].body # <<>> } }

\* C9: the table-of-contents entries enumerate exactly the worksheets created:
\* the worksheet entries have the ordinals 1..n, each generator was given n,
\* the workbook lists sheet i as prefix+i with relationship id i, and
\* relationship i targets worksheets/sheet i.xml.
C9_TocEnumeratesSheets ==
    /\ \A k \in 1..Len(SheetEntries) : SheetEntries[k].name = SheetFile(k)
    /\ \A p \in TocPaths : \A d \in TocData(p) :
          /\ d.n = Len(SheetEntries)
          /\ d.n = Len(sheetWriters)
    /\ \A d \in TocData(WorkbookPath) :
          /\ Len(d.items) = Len(SheetEntries)
          /\ \A i \in 1..Len(d.items) :
                /\ d.items[i].name = <<config.SheetNamePrefix, i>>
                /\ d.items[i].rId = i
    /\ \A d \in TocData(WorkbookRelsPath) :
          \A i \in 1..Len(SheetEntries) :
                /\ d.items[i].Id = i
                /\ d.items[i].Target = <<"worksheets/sheet%d.xml", SheetEntries[i].name.n>>
    /\ \A d \in TocData(ContentTypesPath) :
          /\ Len(d.items) = Len(SheetEntries)
          /\ \A i \in 1..Len(d.items) :
                d.items[i].PartName = <<"/xl/worksheets/sheet%d.xml", SheetEntries[i].name.n>>

\* a finished document of two sheets with its three table-of-contents entries
C9_Witness ==
    /\ FinishOK
    /\ Len(SheetEntries) = 2
    /\ \A p \in TocPaths : TocData(p) # {}

----------------------------------------------------------------------------
(* Configuration setters *)

SetterOps == {"SetCompressionLevel", "SetBufferSize", "SetMaxRowsPerSheet"}

InRange(op, v) ==
    CASE op = "SetCompressionLevel" -> v >= 0 /\ v <= 9
      [] op = "SetBufferSize"       -> v >= 1024
      [] op = "SetMaxRowsPerSheet"  -> v >= 1 /\ v <= 1048576

Stored(cfg, op, v) ==
    CASE op = "SetCompressionLevel" -> [cfg EXCEPT !.CompressionLevel = v]
      [] op = "SetBufferSize"       -> [cfg EXCEPT !.BufferSize = v]
      [] op = "SetMaxRowsPerSheet"  -> [cfg EXCEPT !.MaxRowsPerSheet = v]

\* C10: a setter succeeds only while the Writer is not started and the value
\* is in range (level 0..9, buffer at least 1024, ceiling 1..1048576), it then
\* stores the value; in every failing case the configuration is unchanged.
C10_Setters ==
    [][last'.op \in SetterOps =>
          /\ (last'.err = Nil) = (~started /\ InRange(last'.op, last'.arg))
          /\ config' = (IF last'.err = Nil THEN Stored(config, last'.op, last'.arg) ELSE config)
          /\ UNCHANGED <<started, finished, sheetWriters, currentSheetIndex, totalRows>>
          /\ UNCHANGED Destination ]_vars

\* a ceiling of 0 was refused before the start, the configuration kept
C10_Witness ==
    /\ last.op = "SetMaxRowsPerSheet"
    /\ last.arg = 0
    /\ last.err = ErrRowsRange
    /\ ~started
    /\ config.MaxRowsPerSheet = 2

----------------------------------------------------------------------------
(* Configuration in effect *)

\* C11: once StartFile has been called, the row ceiling, the compression level
\* and the sheet-name prefix this Writer reads stay what they were at
\* StartFile, whatever is called on any Writer made from the same Config.
C11_ConfigImmutable ==
    started =>
        /\ config.MaxRowsPerSheet = atStart.MaxRowsPerSheet
        /\ config.CompressionLevel = atStart.CompressionLevel
        /\ config.SheetNamePrefix = atStart.SheetNamePrefix

\* C12: the row ceiling of a started Writer is within 1..1048576, however the
\* configuration was supplied.
C12_CeilingInRange ==
    started => (config.MaxRowsPerSheet >= 1 /\ config.MaxRowsPerSheet <= ExcelMaxRows)

----------------------------------------------------------------------------
(* Batches and statistics *)

\* attempts to write an encoded row among the calls of a trace
RowAttempts(trace) ==
    Cardinality({ i \in 1..Len(trace) : trace[i].call = "Write" /\ trace[i].data = "row" })

\* every call of the trace but possibly the last succeeded
FailsLast(trace) == \A i \in 1..Len(trace) : i < Len(trace) => trace[i].ok

C14_StatsIffSuccess ==
    last.op = "FinishFile" =>
        /\ (last.stats # NoStats) = (last.err = Nil)
        /\ (last.err = Nil) =
              /\ Len(ioTrace) > 0
              /\ ioTrace[Len(ioTrace)].call = "SinkClose"
              /\ \A i \in 1..Len(ioTrace) : ioTrace[i].ok
        /\ (last.err = Nil) =>
              /\ last.stats.TotalRows = rowsAccepted
              /\ last.stats.TotalSheets = Len(SheetEntries)

\* the archive was closed, the close of the sink failed: an error and no Stats
C14_Witness ==
    /\ last.op = "FinishFile"
    /\ last.err = "failed to close sink"
    /\ last.stats = NoStats
    /\ zipClosed
    /\ rowsAccepted > 0

----------------------------------------------------------------------------
(* The chunked-upload sink *)

SinkReady == s3sink.state = "ready"

\* the client calls of the last method called on the sink
LastCalls == SubSeq(s3sink.log, s3sink.from + 1, Len(s3sink.log))

IsTransfer(e) == e.call \in {"UploadPart", "CompleteMultipartUpload"}
IsAbort(e)    == e.call = "AbortMultipartUpload"
IsAck(e)      == e.call = "UploadPart" /\ e.ok

\* the parts the destination has acknowledged, in the order it did
Acked == SelectSeq(s3sink.log, IsAck)

\* no client call is made twice by one method call
NoRetry ==
    \A i, j \in 1..Len(LastCalls) : LastCalls[i].call = LastCalls[j].call => i = j

\* C15: if the upload of the final part or the completion of the session
\* fails while Close runs, the abort of the session is invoked before Close
\* returns the failure, and no call is retried.
C15_AbortOnFailure ==
    (SinkReady /\ s3sink.op = "Close") =>
        /\ NoRetry
        /\ \A i \in 1..Len(LastCalls) :
              (IsTransfer(LastCalls[i]) /\ ~LastCalls[i].ok) =>
                  /\ s3sink.err # Nil
                  /\ \E j \in (i + 1)..Len(LastCalls) : IsAbort(LastCalls[j])

\* what the code does: only a failed completion is followed by the abort
C15_AbortOnFailedCompletion ==
    (SinkReady /\ s3sink.op = "Close") =>
        /\ NoRetry
        /\ \A i \in 1..Len(LastCalls) :
              (LastCalls[i].call = "CompleteMultipartUpload" /\ ~LastCalls[i].ok) =>
                  /\ s3sink.err # Nil
                  /\ \E j \in (i + 1)..Len(LastCalls) : IsAbort(LastCalls[j])

PartSize == s3sink.options.PartSize

\* every client call so far succeeded
AllOk == \A i \in 1..Len(s3sink.log) : s3sink.log[i].ok

\* only successful Writes so far
WritesOnly == SinkReady /\ s3sink.closes = 0 /\ AllOk

\* successful Writes, then one successful Close
WritesThenClose ==
    /\ SinkReady /\ s3sink.closes = 1 /\ AllOk
    /\ s3sink.op = "Close" /\ s3sink.err = Nil

RECURSIVE SumParts(_)
SumParts(es) == IF es = <<>> THEN 0 ELSE Bytes(Head(es).body) + SumParts(Tail(es))

\* the acknowledged parts carry the numbers 1..n in order
NumberedInOrder == \A i \in 1..Len(Acked) : Acked[i].PartNumber = i

ByClose(e) == e.op = "Close"
Remainder  == s3sink.totalBytes % PartSize

IsAckAt(i) == IsAck(s3sink.log[i])

\* the positions in the log of the acknowledged uploads, in order
AckPositions == SelectSeq([i \in 1..Len(s3sink.log) |-> i], IsAckAt)

\* acknowledged uploads among the first k calls of the log
AcksBefore(k) == Cardinality({ i \in 1..(k - 1) : IsAckAt(i) })

\* the list of parts: number i at place i, with the tag of the i-th acknowledgment
DenseInAckOrder(parts) ==
    \A i \in 1..Len(parts) :
        /\ parts[i].PartNumber = i
        /\ parts[i].ETag = AckPositions[i]
        /\ s3sink.log[AckPositions[i]].PartNumber = i

\* C17: in every state the completed parts carry the numbers 1..n in that
\* order, one per acknowledged upload and in the order of the acknowledgments,
\* the next part number is n + 1, and every completion request submits that
\* list; failed uploads in between change none of this.
C17_PartNumbering ==
    (s3sink.state # "none") =>
        /\ Len(s3sink.completedParts) = Len(AckPositions)
        /\ DenseInAckOrder(s3sink.completedParts)
        /\ s3sink.partNumber = Len(s3sink.completedParts) + 1
        /\ \A k \in 1..Len(s3sink.log) :
              s3sink.log[k].call = "CompleteMultipartUpload" =>
                  /\ Len(s3sink.log[k].parts) = AcksBefore(k)
                  /\ DenseInAckOrder(s3sink.log[k].parts)

\* two parts completed although an upload failed between them
C17_Witness ==
    /\ SinkReady
    /\ Len(s3sink.log) = 5
    /\ IsAckAt(2) /\ ~s3sink.log[3].ok /\ IsAckAt(4)
    /\ s3sink.log[5].call = "CompleteMultipartUpload" /\ s3sink.log[5].ok
    /\ Len(s3sink.log[5].parts) = 2

CreateCalls ==
    { i \in 1..Len(s3sink.log) : s3sink.log[i].call = "CreateMultipartUpload" }

\* C19: NewS3Sink with a part size below 5 MiB returns an error and no sink
\* and initiates no session; with a valid part size it initiates exactly one
\* session and returns the sink, or an error and no sink if the initiation
\* fails.
C19_Construction ==
    /\ Cardinality(CreateCalls) <= 1
    /\ (s3sink.state = "failed") => (s3sink.err # Nil /\ s3sink.op = "NewS3Sink")
    /\ (s3sink.op = "NewS3Sink") =>
          IF s3sink.arg < 5 * 1024 * 1024
          THEN /\ s3sink.state = "failed"
               /\ s3sink.err = ErrPartSize
               /\ s3sink.log = <<>>
          ELSE /\ CreateCalls = {1}
               /\ Len(s3sink.log) = 1
               /\ s3sink.log[1].ok = (s3sink.state = "ready")
               /\ s3sink.log[1].ok = (s3sink.err = Nil)
               /\ s3sink.log[1].ok = (s3sink.uploadID # Nil)
               /\ s3sink.options.PartSize = s3sink.arg
    /\ SinkReady => (CreateCalls = {1} /\ s3sink.log[1].ok /\ s3sink.uploadID # Nil)

\* the initiation of the session failed: an error and no sink
C19_Witness ==
    /\ s3sink.state = "failed"
    /\ s3sink.arg = DefaultPartSize
    /\ Len(s3sink.log) = 1
    /\ ~s3sink.log[1].ok

RECURSIVE Bodies(_)
Bodies(es) == IF es = <<>> THEN <<>> ELSE Head(es).body \o Bodies(Tail(es))

\* C20: Close returns nil only if the buffer is empty, the acknowledged parts
\* hold, in order, every byte Write has accepted, and the completion request
\* with the whole ordered list of parts was acknowledged.
C20_CloseSuccess ==
    (SinkReady /\ s3sink.op = "Close" /\ s3sink.err = Nil) =>
        /\ s3sink.buffer = <<>>
        /\ Bodies(Acked) = s3sink.accepted
        /\ SumParts(Acked) = s3sink.totalBytes
        /\ Len(LastCalls) >= 1
        /\ LastCalls[Len(LastCalls)].call = "CompleteMultipartUpload"
        /\ LastCalls[Len(LastCalls)].ok
        /\ LastCalls[Len(LastCalls)].parts = s3sink.completedParts
        /\ Len(s3sink.completedParts) = Len(Acked)

\* Close succeeded after a Write whose upload had failed
C20_Witness ==
    /\ SinkReady /\ s3sink.op = "Close" /\ s3sink.err = Nil
    /\ Len(s3sink.accepted) = 2
    /\ \E i \in 1..Len(s3sink.log) : s3sink.log[i].op = "Write" /\ ~s3sink.log[i].ok
    /\ ByClose(Acked[Len(Acked)])

\* a session was initiated by the call that has returned
Initiated == s3sink.uploadID # Nil

\* the abort of the session was invoked after the last failed upload or completion
AbortedAfterFailure ==
    \A i \in 1..Len(s3sink.log) :
        (IsTransfer(s3sink.log[i]) /\ ~s3sink.log[i].ok) =>
            \E j \in (i + 1)..Len(s3sink.log) : IsAbort(s3sink.log[j])

\* C21: whenever S3SinkFromReader returns an error after the session was
\* initiated (a part upload failed during the copy, the upload of the final
\* part failed at Close, or the completion failed), the abort of the session
\* has been invoked after the failure and before the return.
C21_FromReaderAborts ==
    (s3sink.op # "none" /\ Initiated /\ s3sink.err # Nil) =>
        /\ \E j \in 1..Len(s3sink.log) : IsAbort(s3sink.log[j])
        /\ AbortedAfterFailure

\* what the code does: the abort follows a failed Write and a failed
\* completion, not a failed upload of the final part at Close
C21_AbortsButForFinalPart ==
    (s3sink.op # "none" /\ Initiated /\ s3sink.err # Nil) =>
        \A i \in 1..Len(s3sink.log) :
            (IsTransfer(s3sink.log[i]) /\ ~s3sink.log[i].ok) =>
                IF s3sink.log[i].call = "UploadPart" /\ s3sink.log[i].op = "Close"
                THEN i = Len(s3sink.log) /\ s3sink.err = "failed to upload final part"
                ELSE i + 1 = Len(s3sink.log) /\ IsAbort(s3sink.log[i + 1])

\* the object the destination assembles from a completion request: the bodies
\* of the uploads that its parts name by their tags, in the order of the list
RECURSIVE Assembled(_)
Assembled(parts) ==
    IF parts = <<>> THEN <<>>
    ELSE s3sink.log[Head(parts).ETag].body \o Assembled(Tail(parts))

\* the completion request of the Close that has returned
CompletionRequest == LastCalls[Len(LastCalls)].parts

Ascending(parts) ==
    \A i, j \in 1..Len(parts) : i < j => parts[i].PartNumber < parts[j].PartNumber

\* C22: after a successful Close the bodies of the uploaded parts, put
\* together in the order of their part numbers, are exactly the bytes passed
\* to Write, in order, none lost, duplicated or moved, also when an upload
\* had failed and its bytes went out with a later call.
C22_DataFidelity ==
    (SinkReady /\ s3sink.op = "Close" /\ s3sink.err = Nil) =>
        /\ Ascending(CompletionRequest)
        /\ \A i \in 1..Len(CompletionRequest) :
              /\ IsAckAt(CompletionRequest[i].ETag)
              /\ s3sink.log[CompletionRequest[i].ETag].PartNumber =
                    CompletionRequest[i].PartNumber
        /\ Assembled(CompletionRequest) = s3sink.accepted
        /\ \A w \in 1..Len(s3sink.accepted) : s3sink.accepted[w].w = w

\* three Writes, the upload of the second one failed, two parts at the end
C22_Witness ==
    /\ SinkReady /\ s3sink.op = "Close" /\ s3sink.err = Nil
    /\ Len(s3sink.accepted) = 3
    /\ Len(CompletionRequest) = 2
    /\ \E i \in 1..Len(s3sink.log) :
          /\ s3sink.log[i].op = "Write" /\ ~s3sink.log[i].ok
          /\ Len(s3sink.log[i].body) = 2
    /\ Len(Assembled(CompletionRequest)) = 3

----------------------------------------------------------------------------
(* Order of the archive entries *)

\* the entries of a document of n sheets, in the order of their creation
EntryOrder(n) ==
    <<File("_rels/.rels"), File("xl/styles.xml")>> \o
    [i \in 1..n |-> SheetFile(i)] \o
    <<File(WorkbookPath), File(WorkbookRelsPath), File(ContentTypesPath)>>

EntriesInOrder ==
    \A i \in 1..Len(entries) : entries[i].name = EntryOrder(Len(SheetEntries))[i]

\* the rows of the document, sheet after sheet
RECURSIVE AllRows(_)
AllRows(es) == IF es = <<>> THEN <<>> ELSE RowsOf(Head(es)) \o AllRows(Tail(es))

IsHeaderRow(d) == d = generateRow(d.n - 1, HeaderRow)

HeaderFirst ==
    /\ HeaderWritten => (AllRows(SheetEntries) # <<>> /\ IsHeaderRow(AllRows(SheetEntries)[1]))
    /\ \A i \in 2..Len(AllRows(SheetEntries)) : ~IsHeaderRow(AllRows(SheetEntries)[i])
    /\ ~HeaderWritten => \A i \in 1..Len(AllRows(SheetEntries)) :
                            ~IsHeaderRow(AllRows(SheetEntries)[i])

\* entries created by the first k calls of the last method call
CreatedBy(k) ==
    Cardinality({ i \in 1..k : ioTrace[i].call = "Create" /\ ioTrace[i].ok })

\* the entry created last when call number i of the last method call was made
CurrentEntryAt(i) == Len(entries) - CreatedBy(Len(ioTrace)) + CreatedBy(i - 1)

\* every write of the last method call went to the entry created last
WritesToNewestEntry ==
    \A i \in 1..Len(ioTrace) :
        ioTrace[i].call = "Write" =>
            /\ CurrentEntryAt(i) >= 1
            /\ ioTrace[i].target = entries[CurrentEntryAt(i)].name

\* a sheet entry that is not the newest entry ends with its closing marker
SheetsClosedBeforeNext ==
    \A i \in 1..(Len(entries) - 1) :
        IsSheetEntry(entries[i]) =>
            /\ entries[i].body # <<>>
            /\ IsFooter(entries[i].body[Len(entries[i].body)])

\* C23: the entries of a document are created in the order _rels/.rels,
\* xl/styles.xml, sheet1.xml .. sheetN.xml, then the table-of-contents
\* entries; a header row is written before any data row; and no write is
\* issued to an entry after a later entry has been created: a sheet's closing
\* marker is written before the next entry is created.
C23_EntryOrdering ==
    /\ EntriesInOrder
    /\ HeaderFirst
    /\ WritesToNewestEntry
    /\ SheetsClosedBeforeNext

\* a finished document with a header row, two sheets and the three
\* table-of-contents entries
C23_Witness ==
    /\ FinishOK
    /\ HeaderWritten
    /\ Len(SheetEntries) = 2
    /\ Len(entries) = 7
    /\ Len(AllRows(SheetEntries)) = 3

----------------------------------------------------------------------------
(* Row counters *)

\* the step is a WriteRow call of the caller
WriteRowReturns == last'.op = "WriteRow"

\* the sheets that existed before the step keep their counts, but for sheet k
OthersKept(k) ==
    \A i \in 1..Len(sheetWriters) :
        i # k => sheetWriters'[i].rowCount = sheetWriters[i].rowCount

\* one row more in the open sheet, which is a new sheet after a rollover, and
\* one more in the document
CountedOnce ==
    /\ totalRows' = totalRows + 1
    /\ currentSheetIndex' + 1 = Len(sheetWriters')
    /\ IF Len(sheetWriters') > Len(sheetWriters)
       THEN /\ Len(sheetWriters') = Len(sheetWriters) + 1
            /\ sheetWriters'[Len(sheetWriters')].rowCount = 1
            /\ OthersKept(0)
       ELSE /\ sheetWriters'[currentSheetIndex + 1].rowCount =
                  sheetWriters[currentSheetIndex + 1].rowCount + 1
            /\ OthersKept(currentSheetIndex + 1)

\* no counter moved; a sheet opened by the failed call holds no row
NotCounted ==
    /\ totalRows' = totalRows
    /\ Len(sheetWriters') >= Len(sheetWriters)
    /\ OthersKept(0)
    /\ \A i \in (Len(sheetWriters) + 1)..Len(sheetWriters') : sheetWriters'[i].rowCount = 0

CountersAgree ==
    /\ totalRows = rowsAccepted
    /\ SumRowCount(sheetWriters) = totalRows + HeaderCount

\* C24: a WriteRow that returns success increments the open worksheet's row
\* count and the document's total by one each, a WriteRow that returns an
\* error increments neither; so the total always equals the number of
\* successful WriteRow calls of the caller, and the worksheets' row counts
\* sum to that total, plus one if a header row was written.
C24_RowCounters ==
    /\ []CountersAgree
    /\ [][WriteRowReturns => IF last'.err = Nil THEN CountedOnce ELSE NotCounted]_vars

\* a header and two rows in three sheets, then a WriteRow that failed after
\* it had opened a fourth sheet
C24_Witness ==
    /\ last.op = "WriteRow" /\ last.err # Nil
    /\ HeaderWritten
    /\ totalRows = 2
    /\ Len(sheetWriters) = 4
    /\ sheetWriters[4].rowCount = 0
    /\ SumRowCount(sheetWriters) = 3

----------------------------------------------------------------------------
(* Row addressing *)

\* row k of a sheet carries the number k, in the row and in each of its cells
AddressedAs(row, k) ==
    /\ row.n = k
    /\ \A c \in 1..Len(row.items) :
          /\ row.items[c].r.row = k
          /\ row.items[c].r.col = columnName(c - 1)

\* C25: the k-th row appended to a worksheet carries row number k, the
\* numbering restarting at 1 on every rollover: within each worksheet the row
\* numbers are exactly 1..rowCount in order, without gap or duplicate, and
\* every cell reference of a row uses the number of its row.
C25_LocalRowAddressing ==
    \A i \in 1..Len(sheetWriters) :
        /\ Len(RowsOf(EntryOf(sheetWriters[i]))) = sheetWriters[i].rowCount
        /\ \A k \in 1..Len(RowsOf(EntryOf(sheetWriters[i]))) :
              AddressedAs(RowsOf(EntryOf(sheetWriters[i]))[k], k)

\* four rows under a ceiling of two: the second sheet holds rows 1 and 2
C25_Witness ==
    /\ Len(sheetWriters) = 2
    /\ totalRows = 4
    /\ ~HeaderWritten
    /\ sheetWriters[1].rowCount = 2
    /\ sheetWriters[2].rowCount = 2
    /\ RowsOf(EntryOf(sheetWriters[2]))[2].n = 2
    /\ RowsOf(EntryOf(sheetWriters[2]))[2].items[5].r.row = 2

----------------------------------------------------------------------------
(* No retries *)

\* the calls named `call` that the last method call made on the client
CallsOf(call) == { i \in 1..Len(LastCalls) : LastCalls[i].call = call }

\* a failed upload or completion ends the transfers of the method call: only
\* the abort may follow it
FailureEndsTransfers ==
    \A i \in 1..Len(LastCalls) :
        (IsTransfer(LastCalls[i]) /\ ~LastCalls[i].ok) =>
            /\ s3sink.err # Nil
            /\ \A j \in (i + 1)..Len(LastCalls) : ~IsTransfer(LastCalls[j])

\* C26: within one Write or Close call of the sink (the calls by which
\* WriteRow and FinishFile reach the transport) a part upload and the
\* completion of the session are each attempted at most once, and a failure
\* of either is returned by that same call.
C26_NoInternalRetry ==
    /\ (SinkReady /\ s3sink.op = "Write") =>
          /\ Cardinality(CallsOf("UploadPart")) <= 1
          /\ CallsOf("CompleteMultipartUpload") = {}
          /\ Len(LastCalls) <= 1
          /\ FailureEndsTransfers
          /\ (s3sink.err # Nil) => (Len(LastCalls) = 1 /\ ~LastCalls[1].ok)
    /\ (SinkReady /\ s3sink.op = "Close") =>
          /\ Cardinality(CallsOf("UploadPart")) <= 1
          /\ Cardinality(CallsOf("CompleteMultipartUpload")) <= 1
          /\ FailureEndsTransfers
          /\ (s3sink.err # Nil) =>
                \E i \in 1..Len(LastCalls) : IsTransfer(LastCalls[i]) /\ ~LastCalls[i].ok

\* a Write whose upload failed once, then a Close whose completion failed once
C26_Witness ==
    /\ SinkReady /\ s3sink.op = "Close" /\ s3sink.err # Nil
    /\ Len(LastCalls) = 3
    /\ LastCalls[1].call = "UploadPart" /\ LastCalls[1].ok
    /\ LastCalls[2].call = "CompleteMultipartUpload" /\ ~LastCalls[2].ok
    /\ \E i \in 1..s3sink.from :
          s3sink.log[i].op = "Write" /\ s3sink.log[i].call = "UploadPart" /\ ~s3sink.log[i].ok

----------------------------------------------------------------------------
(* The lifecycle *)

\* not started -> in progress by StartFile only, in progress -> finished by
\* FinishFile only, and no way back
LifecycleStep ==
    /\ started => started'
    /\ finished => finished'
    /\ (started' # started) => (last'.op = "StartFile" /\ ~finished')
    /\ (finished' # finished) => (last'.op = "FinishFile" /\ started)

\* a finished document is left alone
FinishedIsFinal ==
    finished =>
        /\ sheetWriters' = sheetWriters
        /\ currentSheetIndex' = currentSheetIndex
        /\ totalRows' = totalRows
        /\ entries' = entries
        /\ ioTrace' = <<>>
        /\ zipClosed' = zipClosed /\ sinkClosed' = sinkClosed

\* C27: the lifecycle of the Writer is monotonic: the only transitions are
\* not started -> in progress, by StartFile, and in progress -> finished, by
\* FinishFile; finished implies started in every state, neither flag is ever
\* reset, and once the document is finished no operation changes the sheet
\* list or the row counters or writes to the sink.
C27_MonotonicLifecycle ==
    /\ [](finished => started)
    /\ [][LifecycleStep /\ FinishedIsFinal]_vars

\* StartFile called on a finished document of two sheets
C27_Witness ==
    /\ finished /\ started
    /\ last.op = "StartFile" /\ last.err = ErrAlreadyStarted
    /\ Len(sheetWriters) = 2
    /\ totalRows = 2
    /\ ioTrace = <<>>

----------------------------------------------------------------------------
(* I/O failures and the lifecycle *)

\* the last call was `op` and an archive or sink call of it failed
IOFailed(op) ==
    /\ last.op = op
    /\ last.err # Nil
    /\ last.err \notin LifecycleErrs
    /\ ioTrace # <<>>
    /\ ~ioTrace[Len(ioTrace)].ok

\* the step is a WriteRow or FinishFile call
WriteOrFinish == last'.op \in {"WriteRow", "FinishFile"}

\* C28: an I/O failure changes the lifecycle state only through FinishFile:
\* after a WriteRow that failed with a write error the Writer is started and
\* not finished, and a WriteRow or FinishFile that follows is not rejected by
\* the lifecycle checks; after a FinishFile that failed part-way the Writer is
\* finished, and a WriteRow or FinishFile that follows is rejected as already
\* finished.
C28_FailureAndLifecycle ==
    /\ [](IOFailed("WriteRow") => (started /\ ~finished))
    /\ [](IOFailed("FinishFile") => (started /\ finished))
    /\ [][(started /\ ~finished /\ WriteOrFinish) => last'.err \notin LifecycleErrs]_vars
    /\ [][(finished /\ WriteOrFinish) => last'.err = ErrAlreadyFinished]_vars

\* a WriteRow rejected after a FinishFile that had failed before it closed
\* the archive
C28_Witness ==
    /\ last.op = "WriteRow"
    /\ last.err = ErrAlreadyFinished
    /\ finished /\ zipErr /\ ~zipClosed /\ ~sinkClosed
    /\ totalRows = 1

\* a WriteRow whose row could not be written, on a document in progress
C28_WriteRowFailed ==
    /\ IOFailed("WriteRow")
    /\ last.err = "failed to write row"
    /\ started /\ ~finished /\ zipErr

----------------------------------------------------------------------------
(* Byte accounting of the sink *)

\* C29: after every Write or Close call TotalBytes is the sum of the lengths
\* of the acknowledged parts plus the number of bytes in the buffer, and
\* PartCount is the number of acknowledged parts; after a successful Close the
\* buffer is empty and TotalBytes is the sum of the lengths of the parts.
C29_ByteAccounting ==
    SinkReady =>
        /\ TotalBytes(s3sink) = SumParts(Acked) + Bytes(s3sink.buffer)
        /\ TotalBytes(s3sink) = Bytes(s3sink.accepted)
        /\ PartCount(s3sink) = Len(Acked)
        /\ (s3sink.op = "Close" /\ s3sink.err = Nil) =>
              /\ Bytes(s3sink.buffer) = 0
              /\ TotalBytes(s3sink) = SumParts(Acked)

\* 5 MiB uploaded by a Write, 2 MiB more left in the buffer by a Close whose
\* upload failed
C29_Witness ==
    /\ SinkReady /\ s3sink.op = "Close" /\ s3sink.err # Nil
    /\ PartSize = 5 * MiB
    /\ PartCount(s3sink) = 1
    /\ SumParts(Acked) = 5 * MiB
    /\ Bytes(s3sink.buffer) = 2 * MiB
    /\ TotalBytes(s3sink) = 7 * MiB

----------------------------------------------------------------------------
(* A rejected part *)

IsRejectedAt(i) == s3sink.log[i].call = "UploadPart" /\ ~s3sink.log[i].ok

\* the upload attempts that follow call number i of the log
UploadsAfter(i) ==
    { j \in (i + 1)..Len(s3sink.log) : s3sink.log[j].call = "UploadPart" }

\* the first of them
NextUpload(i) == CHOOSE j \in UploadsAfter(i) : \A k \in UploadsAfter(i) : j <= k

IsPrefix(a, b) == Len(a) <= Len(b) /\ SubSeq(b, 1, Len(a)) = a

\* C30: a part upload that the transport rejects, during Write or Close,
\* leaves the upload state as it was: the part number is not advanced, the
\* list of completed parts is not extended and the buffered bytes are
\* retained, so the next upload attempt sends the same bytes, followed by
\* those written in between, under the same part number.
C30_RejectedPartKeepsState ==
    SinkReady =>
        \A i \in 1..Len(s3sink.log) :
            IsRejectedAt(i) =>
                /\ s3sink.log[i].op \in {"Write", "Close"}
                /\ s3sink.log[i].PartNumber = AcksBefore(i) + 1
                /\ i > s3sink.from =>
                      /\ s3sink.err # Nil
                      /\ s3sink.buffer = s3sink.log[i].body
                /\ IF UploadsAfter(i) = {}
                   THEN /\ s3sink.partNumber = s3sink.log[i].PartNumber
                        /\ Len(s3sink.completedParts) = AcksBefore(i)
                        /\ IsPrefix(s3sink.log[i].body, s3sink.buffer)
                   ELSE /\ s3sink.log[NextUpload(i)].PartNumber = s3sink.log[i].PartNumber
                        /\ Len(s3sink.log[NextUpload(i)].parts) = 0
                        /\ IsPrefix(s3sink.log[i].body, s3sink.log[NextUpload(i)].body)

\* a part rejected during a Write and sent again, with the bytes of the next
\* Write, under the same number; then a part rejected during Close
C30_Witness ==
    /\ SinkReady /\ s3sink.op = "Close" /\ s3sink.err # Nil
    /\ Len(s3sink.log) = 4
    /\ IsRejectedAt(2) /\ s3sink.log[2].op = "Write"
    /\ IsAckAt(3) /\ s3sink.log[3].PartNumber = s3sink.log[2].PartNumber
    /\ Len(s3sink.log[3].body) = Len(s3sink.log[2].body) + 1
    /\ IsRejectedAt(4) /\ s3sink.log[4].op = "Close"
    /\ s3sink.partNumber = 2
    /\ s3sink.buffer = s3sink.log[4].body

----------------------------------------------------------------------------
(* The current sheet *)

\* C31: whenever the Writer is started and not finished it has a current
\* open worksheet: the sheet list is non-empty and the current sheet index
\* refers to its last element, so that WriteRow and FinishFile never index an
\* empty sheet list, also after a StartFile that returned an I/O error.
C31_CurrentSheet ==
    /\ (started /\ ~finished) =>
          /\ Len(sheetWriters) > 0
          /\ currentSheetIndex + 1 = Len(sheetWriters)
    /\ last.err # ErrPanic

\* what the code keeps: the index refers to the last sheet once there is one
C31_IndexIsLastSheet ==
    Len(sheetWriters) > 0 => currentSheetIndex + 1 = Len(sheetWriters)

----------------------------------------------------------------------------
(* The close of the sink *)

\* the calls named `call` among the calls of the last method call
TraceCalls(call) == { i \in 1..Len(ioTrace) : ioTrace[i].call = call }

\* C32: whenever FinishFile is invoked on a document in progress, the sink's
\* Close has been invoked by the time FinishFile returns, also when an
\* earlier step of the finalization (the worksheet footer, a
\* table-of-contents entry, the close of the archive) failed.
C32_FinishClosesSink ==
    (last.op = "FinishFile" /\ last.err \notin LifecycleErrs) =>
        /\ sinkClosed
        /\ TraceCalls("SinkClose") # {}

\* what the code does: the sink is closed only after every earlier step of
\* the finalization has succeeded
C32_ClosedOnlyAfterSuccess ==
    (last.op = "FinishFile" /\ last.err \notin LifecycleErrs) =>
        (sinkClosed <=> \A i \in 1..Len(ioTrace) :
                            ioTrace[i].call # "SinkClose" => ioTrace[i].ok)

\* a step closes the sink at most once, as its last call, and only a
\* FinishFile on a sink that is not closed does
ClosesOnce ==
    /\ Cardinality({ i \in 1..Len(ioTrace') : ioTrace'[i].call = "SinkClose" }) <= 1
    /\ \A i \in 1..Len(ioTrace') :
          ioTrace'[i].call = "SinkClose" =>
              /\ ~sinkClosed
              /\ last'.op = "FinishFile"
              /\ i = Len(ioTrace')

\* the archive, and with it the sink, is not called once the sink is closed
NoCallAfterClose == sinkClosed => (ioTrace' = <<>> /\ sinkClosed')

\* C33: over any sequence of StartFile, WriteRow, WriteRows and FinishFile
\* calls sink.Close is invoked at most once, and nothing is written to the
\* sink after sink.Close has been invoked.
C33_SinkClosedOnce ==
    /\ [](sinkClosed => finished)
    /\ [][ClosesOnce /\ NoCallAfterClose]_vars

\* a WriteRows call that found the sink closed by an earlier FinishFile
C33_Witness ==
    /\ sinkClosed /\ finished
    /\ last.op = "WriteRows" /\ last.arg = 2
    /\ last.err = ErrAlreadyFinished
    /\ ioTrace = <<>>

----------------------------------------------------------------------------
(* The end of the upload session *)

\* call number i of the log ended the session: an acknowledged completion or
\* an acknowledged abort
EndsSession(i) ==
    /\ s3sink.log[i].call \in {"CompleteMultipartUpload", "AbortMultipartUpload"}
    /\ s3sink.log[i].ok

IsSessionRequest(e) ==
    e.call \in {"UploadPart", "CompleteMultipartUpload", "AbortMultipartUpload"}

\* C34: an upload session ends exactly once: after it has been completed or
\* aborted the sink issues no further part upload, completion or abort for
\* it, whatever Write, Close and Abort calls follow; in particular a session
\* is never both completed and aborted.
C34_SessionEndsOnce ==
    \A i \in 1..Len(s3sink.log) :
        EndsSession(i) =>
            \A j \in (i + 1)..Len(s3sink.log) : ~IsSessionRequest(s3sink.log[j])

\* what the code keeps: within one Close or Abort call nothing follows the
\* request that ended the session
C34_NothingFollowsWithinCall ==
    \A i \in (s3sink.from + 1)..Len(s3sink.log) : EndsSession(i) => i = Len(s3sink.log)

\* C35: whenever the sink submits the completion of an upload session, the
\* list of completed parts it submits is non-empty, also when Close is called
\* on a sink to which no bytes were written (S3SinkFromReader on an empty
\* reader).
C35_CompletionHasParts ==
    \A i \in 1..Len(s3sink.log) :
        s3sink.log[i].call = "CompleteMultipartUpload" => Len(s3sink.log[i].parts) >= 1

\* what the code does: the completion carries no part exactly when no byte
\* was written
C35_NoPartsIffNoBytes ==
    \A i \in 1..Len(s3sink.log) :
        s3sink.log[i].call = "CompleteMultipartUpload" =>
            (Len(s3sink.log[i].parts) = 0 <=> s3sink.totalBytes = 0)

----------------------------------------------------------------------------
(* The export that nothing disturbs *)

IsCompletion(e) == e.call = "CompleteMultipartUpload"

\* the export is through: the document finished and closed, the session
\* completed once, with every part that was uploaded, and not aborted
ExportDone ==
    /\ finished /\ zipClosed /\ sinkClosed
    /\ last.op = "FinishFile" /\ last.err = Nil
    /\ totalRows = rowsAccepted
    /\ Len(sheetWriters) >= 1
    /\ \A i \in 1..Len(sheetWriters) : sheetWriters[i].closed
    /\ s3sink.buffer = <<>>
    /\ s3sink.err = Nil
    /\ AllOk
    /\ Len(SelectSeq(s3sink.log, IsCompletion)) = 1
    /\ IsCompletion(s3sink.log[Len(s3sink.log)])
    /\ s3sink.log[Len(s3sink.log)].parts = s3sink.completedParts
    /\ Len(s3sink.completedParts) = Len(Acked)
    /\ Len(Acked) >= 1
    /\ SumParts(Acked) = s3sink.totalBytes
    /\ SelectSeq(s3sink.log, IsAbort) = <<>>

\* C36: if no archive, sink or transport call fails, StartFile, any number
\* of WriteRow calls and FinishFile on a Writer over a chunked-upload sink
\* end with the Writer finished, every worksheet closed, the sink closed, its
\* buffer empty and the upload session completed exactly once with all the
\* uploaded parts, and stay so: the session is never left open.
C36_ExportTerminates == <>[]ExportDone

\* four rows in two sheets went out in three parts
C36_Witness ==
    /\ ExportDone
    /\ totalRows = 4
    /\ Len(sheetWriters) = 2
    /\ Len(Acked) = 3
    /\ ~ByClose(Acked[2]) /\ ByClose(Acked[3])

\* the relationship identifiers of a workbook relationship list, in order
RelationshipIds(rels) == [i \in 1..Len(rels.items) |-> rels.items[i].Id]

\* no element occurs twice
Distinct(seq) == Cardinality({ seq[i] : i \in 1..Len(seq) }) = Len(seq)

\* C37: the relationship identifiers of a generated workbook relationship
\* list are pairwise distinct, for every worksheet count n >= 1: rId1..rIdn
\* of the worksheets and the identifier of the style sheet.
C37_DistinctRelationshipIds ==
    fcall.fn = "generateWorkbookRelsXML" => Distinct(RelationshipIds(fcall.result))

\* C37, what holds: the identifiers are distinct exactly when the workbook
\* has fewer than 999 worksheets; from 999 on, worksheet 999 and the style
\* sheet are both rId999.
C37_DistinctBelow999 ==
    fcall.fn = "generateWorkbookRelsXML" =>
        /\ Len(fcall.result.items) = fcall.args[1] + 1
        /\ \A i \in 1..fcall.args[1] : fcall.result.items[i].Id = i
        /\ fcall.result.items[fcall.args[1] + 1].Id = 999
        /\ Distinct(RelationshipIds(fcall.result)) = (fcall.args[1] < 999)

\* FinishFile returned its Stats and nil
FinishFileSucceeded == last.op = "FinishFile" /\ last.err = Nil

\* C38: the Stats.FileSize that a successful FinishFile returns is the size
\* of the produced file, the number of bytes the Writer wrote to the sink.
C38_FileSize ==
    FinishFileSucceeded => last.stats.FileSize = s3sink.totalBytes

\* C38, what holds: FileSize is 0 whatever was written, and a finished file
\* is never empty.
C38_FileSizeIsZero ==
    FinishFileSucceeded => last.stats.FileSize = 0 /\ s3sink.totalBytes > 0

\* the shapes a cell can have: <c r t="inlineStr"><is><t>..</t></is></c>,
\* <c r><v>..</v></c>, <c r t="b"><v>0|1</v></c> and <c r/>
IsTextCell(c)   == c.t = "inlineStr"
IsNumberCell(c) == c.t = "" /\ c.v # <<>>
IsBoolCell(c)   == c.t = "b" /\ c.v \in {<<"0">>, <<"1">>}
IsEmptyCell(c)  == c.t = "empty" /\ c.v = <<>>

ShapesOf(c) ==
    {sh \in {"text", "number", "bool", "empty"} :
        \/ sh = "text" /\ IsTextCell(c)
        \/ sh = "number" /\ IsNumberCell(c)
        \/ sh = "bool" /\ IsBoolCell(c)
        \/ sh = "empty" /\ IsEmptyCell(c)}

Markup == {"&", "<", ">", "'", "\""}

\* txt with its markup characters replaced by entities, everything else kept
IsEscaped(out, txt) ==
    /\ Len(out) = Len(txt)
    /\ \A i \in 1..Len(txt) : IF txt[i] \in Markup
                               THEN out[i] \notin Markup /\ out[i] # txt[i]
                               ELSE out[i] = txt[i]

\* the cell c is the encoding the claim gives for the value x
EncodedAs(c, x) ==
    CASE x.type = "string"  -> IsTextCell(c) /\ IsEscaped(c.v, x.val)
      [] x.type = "int"     -> IsNumberCell(c) /\ c.v = x.val
      [] x.type = "float64" -> IsNumberCell(c) /\ c.v = x.val
      [] x.type = "bool"    -> IsBoolCell(c) /\ (c.v = <<"1">>) = (x.val = <<"true">>)
      [] x.type = "nil"     -> IsEmptyCell(c)
      [] OTHER              -> IsTextCell(c) /\ IsEscaped(c.v, x.val)

\* C39: generateRow always returns a row, with exactly one cell per value,
\* in the order of the values; every cell has exactly one of the encodings
\* text, integer, floating-point, boolean (0/1) and empty, the one of its
\* value's kind, and a value of any other kind is encoded as the text of
\* its default rendering.
C39_EncoderTotal ==
    fcall.fn = "generateRow" =>
        /\ fcall.result.kind = "row"
        /\ fcall.result.n = fcall.args[1] + 1
        /\ Len(fcall.result.items) = Len(fcall.args[2])
        /\ \A i \in 1..Len(fcall.args[2]) :
              /\ fcall.result.items[i].r.col = columnName(i - 1)
              /\ fcall.result.items[i].r.row = fcall.args[1] + 1
              /\ Cardinality(ShapesOf(fcall.result.items[i])) = 1
              /\ EncodedAs(fcall.result.items[i], fcall.args[2][i])

\* a row of a bool and a value of no named kind, the latter with markup in
\* its rendering
C39_Witness ==
    /\ fcall.fn = "generateRow"
    /\ fcall.args = <<2, <<BoolV(FALSE), OtherV(<<"<", "nil", ">">>)>> >>
    /\ fcall.result.items[1] = [r |-> [col |-> <<"A">>, row |-> 3], t |-> "b", v |-> <<"0">>]
    /\ fcall.result.items[2] = [r |-> [col |-> <<"B">>, row |-> 3], t |-> "inlineStr",
                                v |-> <<"&lt;", "nil", "&gt;">>]

\* the position of a letter in the alphabet, A = 1 .. Z = 26
LetterValue(ch) == CHOOSE k \in 1..26 : Letters[k] = ch

IsLetterName(name) ==
    /\ name # <<>>
    /\ \A i \in 1..Len(name) : \E k \in 1..26 : Letters[k] = name[i]

\* the number a letter name denotes in bijective base 26: A..Z are 1..26,
\* AA is 27, ZZ is 702, AAA is 703
RECURSIVE NameValue(_)
NameValue(name) ==
    IF name = <<>> THEN 0
    ELSE 26 * NameValue(SubSeq(name, 1, Len(name) - 1)) + LetterValue(name[Len(name)])

ColumnExamples ==
    {<<0, <<"A">> >>, <<25, <<"Z">> >>, <<26, <<"A", "A">> >>, <<27, <<"A", "B">> >>,
     <<701, <<"Z", "Z">> >>, <<702, <<"A", "A", "A">> >>}

\* C40: columnName(i) is the letter name of column i+1 in bijective base 26
\* (0 -> A, 25 -> Z, 26 -> AA, 27 -> AB, 701 -> ZZ, 702 -> AAA), distinct
\* indices have distinct names, and cellReference(row, col) is the name of
\* col followed by row+1.
C40_ColumnAddressing ==
    /\ fcall.fn = "columnName" =>
          /\ IsLetterName(fcall.result)
          /\ NameValue(fcall.result) = fcall.args[1] + 1
          /\ \A j \in 0..MaxColumn : j # fcall.args[1] => columnName(j) # fcall.result
          /\ \A ex \in ColumnExamples : ex[1] = fcall.args[1] => fcall.result = ex[2]
    /\ fcall.fn = "cellReference" =>
          /\ DOMAIN fcall.result = {"col", "row"}
          /\ IsLetterName(fcall.result.col)
          /\ NameValue(fcall.result.col) = fcall.args[2] + 1
          /\ fcall.result.row = fcall.args[1] + 1

\* the first column with a name of three letters
C40_Witness ==
    /\ fcall.fn = "columnName"
    /\ fcall.args = <<702>>
    /\ fcall.result = <<"A", "A", "A">>

====
